---- MODULE Spec2Model ----
(***************************************************************************)
(* A model of the GCMS analyzer's asynchronous lookups:                    *)
(*   - PubChemIntegration (gcms-analyzer/js/pubchemIntegration.js): the    *)
(*     request queue with its rate limiter, the compound cache, the        *)
(*     background enrichment and the batch fetch;                          *)
(*   - MetaboliteMapper (gcms-analyzer/js/metaboliteMapper.js);            *)
(*   - GCMSAnalyzer.processMetabolites and NetworkVisualizer.              *)
(*                                                                         *)
(* JavaScript runs one task at a time: an action of the model is one task  *)
(* of the event loop (a call from outside, a fetch settling, a body being  *)
(* read, a timer firing) together with all the microtasks it makes         *)
(* runnable, i.e. the code up to the next await of something that is not   *)
(* yet settled.                                                            *)
(***************************************************************************)
EXTENDS Integers, Sequences, FiniteSets, TLC

VARIABLES
    cache,              \* PubChemIntegration.#cache: name -> CompoundInfo
    requestQueue,       \* PubChemIntegration.#requestQueue
    isProcessingQueue,  \* PubChemIntegration.#isProcessingQueue
    loops,              \* running #processQueue invocations, each at an await
    timers,             \* pending setTimeout callbacks, in arming order
    calls,              \* fetchCompoundInfo invocations, in call order
    events,             \* the 'pubchem-data-updated' events dispatched so far
    pushed,             \* history: number of requests pushed so far
    dispatched,         \* history: push numbers in the order their fetch started
    lastSettled,        \* history: the request whose fetch settled last
    delayPassed,        \* history: the delay armed after lastSettled has fired
    returned,           \* history: names a call returned for since the last clearCache
    batch,              \* the batchFetchCompoundInfo invocation
    mappingCache,       \* MetaboliteMapper.#mappingCache: name -> gene locus id
    proc,               \* the GCMSAnalyzer.processMetabolites invocation
    rows,               \* the rows of resultsTableBody
    cy,                 \* NetworkVisualizer: initialized, and the elements of cy
    uploads,            \* the GCMSAnalyzer.handleFileUpload invocations
    uploadStatus,       \* what the uploadStatus element shows
    charts,             \* the data of the chromatogram and mass spectra charts
    probe,              \* a call of a function of its arguments alone, and its result
    direct              \* calls of NetworkVisualizer and MetaboliteMapper from outside

vars == << cache, requestQueue, isProcessingQueue, loops, timers, calls, events,
           pushed, dispatched, lastSettled, delayPassed, returned, batch,
           mappingCache, proc, rows, cy, uploads, uploadStatus, charts, probe,
           direct >>

----------------------------------------------------------------------------
(* Bounds of the model *)

MaxCalls == 2        \* fetchCompoundInfo calls from outside
MaxCompounds == 6    \* length of the list given to batchFetchCompoundInfo
NumBatchNames == 4   \* distinct names in that list
MaxMetabolites == 6  \* length of the list given to processMetabolites
MaxFaults == 1       \* requests that do not succeed, where the network is limited
MaxUploads == 2      \* files chosen by the user
MaxRows == 2         \* rows of the data given to validateData
MaxPoints == 3       \* rows of the data given to extractChromatogramData
MaxLongBatch == 10   \* the longest list given to batchFetchCompoundInfo alone
MaxSamples == 4      \* the longest intensities array given to findPeaks is one longer
MaxAreaPoints == 3   \* the longest times array given to calculateArea
MaxNamed == 3        \* rows of the data given to validateData and extractMetabolites
MaxDirect == 3       \* calls of NetworkVisualizer and MetaboliteMapper from outside

(* Program constants *)

requestDelay == 300
batchSize == 5
metaboliteBatchSize == 5
chunkDelay == 1000
mappingDelay == 500
pathwayDelay == 500
batchDelay == 1000

----------------------------------------------------------------------------
(* Values *)

\* The compound names callers ask for
Names == { "Glucose", "Caffeine" }

AllNames == << "Glucose", "Caffeine", "Fructose", "Ethanol", "Pyruvate",
               "Citrate", "Aspirin", "Malate", "Lactate", "Toluene" >>

\* The lists given to batchFetchCompoundInfo: NumBatchNames names in turn
CompoundList(n) == [i \in 1..n |-> AllNames[((i - 1) % NumBatchNames) + 1]]

null == "null"

EmptyMap == [x \in {} |-> x]

\* What the compound database answers for a name it knows: the first CID.
ServerCid(name) ==
    CASE name = "Glucose"  -> "5793"
      [] name = "Caffeine" -> "2519"
      [] name = "Fructose" -> "2723872"
      [] name = "Ethanol"  -> "702"
      [] name = "Pyruvate" -> "107735"
      [] name = "Citrate"  -> "31348"
      [] name = "Aspirin"  -> "2244"
      [] name = "Malate"   -> "160434"
      [] name = "Lactate"  -> "91435"
      [] OTHER             -> "1140"

\* data.PropertyTable.Properties[0] of a successful property request
ServerProperties(cid) == [CID |-> cid, MolecularFormula |-> "formula"]

\* data.PropertyTable.Properties[0].IsomericSMILES of a successful request
ServerSMILES(cid) == "smiles"

SearchOutcomes == { "okCid", "okNone", "http", "net" }
EnrichOutcomes == { "ok", "fail" }

\* A request: the call that issued it and the URL's kind stand for { url,
\* resolve, reject }. History: seq is the number of the push that queued it,
\* late says that it was pushed onto the empty queue while #processQueue was
\* in the delay that follows a request.
NoReq == [call |-> 0, kind |-> "none", seq |-> 0, late |-> FALSE]
Req(c, k) == [call |-> c, kind |-> k, seq |-> 0, late |-> FALSE]

Pending == [id |-> "pending"]

\* The whole state as one record, so that the steps of one task compose.
St == [ cache |-> cache, requestQueue |-> requestQueue,
        isProcessingQueue |-> isProcessingQueue, loops |-> loops,
        timers |-> timers, calls |-> calls, events |-> events,
        pushed |-> pushed, dispatched |-> dispatched,
        lastSettled |-> lastSettled,
        delayPassed |-> delayPassed, returned |-> returned, batch |-> batch,
        mappingCache |-> mappingCache, proc |-> proc, rows |-> rows, cy |-> cy,
        uploads |-> uploads, uploadStatus |-> uploadStatus, charts |-> charts,
        probe |-> probe, direct |-> direct ]

Assign(s) ==
    /\ cache' = s.cache
    /\ requestQueue' = s.requestQueue
    /\ isProcessingQueue' = s.isProcessingQueue
    /\ loops' = s.loops
    /\ timers' = s.timers
    /\ calls' = s.calls
    /\ events' = s.events
    /\ pushed' = s.pushed
    /\ dispatched' = s.dispatched
    /\ lastSettled' = s.lastSettled
    /\ delayPassed' = s.delayPassed
    /\ returned' = s.returned
    /\ batch' = s.batch
    /\ mappingCache' = s.mappingCache
    /\ proc' = s.proc
    /\ rows' = s.rows
    /\ cy' = s.cy
    /\ uploads' = s.uploads
    /\ uploadStatus' = s.uploadStatus
    /\ charts' = s.charts
    /\ probe' = s.probe
    /\ direct' = s.direct

MapSet(m, k, v) == [x \in DOMAIN m \cup {k} |-> IF x = k THEN v ELSE m[x]]

RemoveAt(seq, i) == SubSeq(seq, 1, i - 1) \o SubSeq(seq, i + 1, Len(seq))

----------------------------------------------------------------------------
(* PubChemIntegration: the request queue *)

ShiftLast(q) == [item |-> q[Len(q)], rest |-> SubSeq(q, 1, Len(q) - 1)]

\* Array.prototype.shift: the element taken and the rest
Shift(q) == [item |-> Head(q), rest |-> Tail(q)]

\* The head of the while loop of #processQueue: take the next request and
\* start its fetch, or leave the loop and clear the flag.
LoopHead(s) ==
    IF Len(s.requestQueue) > 0
    THEN LET sh == Shift(s.requestQueue) IN
         [s EXCEPT !.requestQueue = sh.rest,
                   !.loops = @ \cup {[pc |-> "fetch", req |-> sh.item]},
                   !.dispatched = Append(@, sh.item.seq)]
    ELSE [s EXCEPT !.isProcessingQueue = FALSE]

ProcessQueueUnguarded(s) == LoopHead([s EXCEPT !.isProcessingQueue = TRUE])

\* #processQueue up to its first await
ProcessQueue(s) ==
    IF s.isProcessingQueue
    THEN s
    ELSE LoopHead([s EXCEPT !.isProcessingQueue = TRUE])

PushWithoutProcessQueue(s, r) ==
    [s EXCEPT
        !.requestQueue =
            Append(@, [r EXCEPT
                         !.seq = s.pushed + 1,
                         !.late = /\ s.requestQueue = << >>
                                  /\ \E l \in s.loops : l.pc = "delay"]),
        !.pushed = @ + 1]

\* #queueRequest: push, then #processQueue()
QueueRequest(s, r) ==
    ProcessQueue([s EXCEPT
        !.requestQueue =
            Append(@, [r EXCEPT
                         !.seq = s.pushed + 1,
                         !.late = /\ s.requestQueue = << >>
                                  /\ \E l \in s.loops : l.pc = "delay"]),
        !.pushed = @ + 1])

ArmDelayUnlessEmpty(s, l) ==
    IF s.requestQueue = << >>
    THEN [s EXCEPT !.loops = @ \ {l},
                   !.isProcessingQueue = FALSE,
                   !.lastSettled = l.req,
                   !.delayPassed = FALSE]
    ELSE [s EXCEPT
            !.loops = (@ \ {l}) \cup {[pc |-> "delay", req |-> l.req]},
            !.timers = Append(@, [kind |-> "requestDelay", owner |-> l.req.seq,
                                  delay |-> requestDelay]),
            !.lastSettled = l.req,
            !.delayPassed = FALSE]

\* #processQueue after `await fetch(url)`: the request's promise is resolved
\* or rejected, and the loop awaits its delay.
ArmDelay(s, l) ==
    [s EXCEPT
       !.loops = (@ \ {l}) \cup {[pc |-> "delay", req |-> l.req]},
       !.timers = Append(@, [kind |-> "requestDelay", owner |-> l.req.seq,
                             delay |-> requestDelay]),
       !.lastSettled = l.req,
       !.delayPassed = FALSE]

----------------------------------------------------------------------------
(* PubChemIntegration: compound lookup *)

NotFoundResult(name) == [id |-> "Not found", name |-> name]

BasicResult(cid, name) ==
    [id |-> cid, name |-> name,
     url |-> << "https://pubchem.ncbi.nlm.nih.gov/compound/", cid >>]

\* { ...cachedData, properties, smiles }
Spread(cachedData, properties, smiles) ==
    [k \in DOMAIN cachedData \cup {"properties", "smiles"} |->
        IF k = "properties" THEN properties
        ELSE IF k = "smiles" THEN smiles
        ELSE cachedData[k]]

\* item: the place of the name in the list of the batch, 0 for a call from
\* outside.
NewCall(name, item) ==
    [name |-> name, item |-> item,
     pc |-> "search", via |-> "search", outcome |-> "none",
     cid |-> null, result |-> Pending,
     enr |-> "none", props |-> "none", smiles |-> "none",
     propsVal |-> EmptyMap, smilesVal |-> null, cleared |-> FALSE,
     emitted |-> 0]

\* fetchAdditionalData up to its await: fetchProperties and fetchSMILES each
\* run up to their #queueRequest.
FetchAdditionalData(s, c) ==
    LET s1 == QueueRequest(s, Req(c, "props"))
        s2 == QueueRequest(s1, Req(c, "smiles"))
    IN [s2 EXCEPT !.calls[c].enr = "running",
                  !.calls[c].props = "wait",
                  !.calls[c].smiles = "wait"]

AfterSearchNotCachingNotFound(s, c, cid) ==
    LET name == s.calls[c].name IN
    IF cid = null
    THEN [s EXCEPT !.calls[c].pc = "done",
                   !.calls[c].result = NotFoundResult(name),
                   !.returned = @ \cup {name}]
    ELSE LET result == BasicResult(cid, name)
             s1 == [s EXCEPT !.cache = MapSet(@, name, result),
                             !.calls[c].cid = cid]
             s2 == FetchAdditionalData(s1, c)
         IN [s2 EXCEPT !.calls[c].pc = "done",
                       !.calls[c].result = result,
                       !.returned = @ \cup {name}]

AfterSearchAlwaysEnriching(s, c, cid) ==
    LET name == s.calls[c].name
        result == IF cid = null THEN NotFoundResult(name)
                  ELSE BasicResult(cid, name)
        s1 == [s EXCEPT !.cache = MapSet(@, name, result),
                        !.calls[c].cid = cid]
        s2 == FetchAdditionalData(s1, c)
    IN [s2 EXCEPT !.calls[c].pc = "done",
                  !.calls[c].result = result,
                  !.returned = @ \cup {name}]

\* fetchCompoundInfo after `await this.searchCompound(compoundName)`
AfterSearch(s, c, cid) ==
    LET name == s.calls[c].name IN
    IF cid = null
    THEN LET result == NotFoundResult(name) IN
         [s EXCEPT !.cache = MapSet(@, name, result),
                   !.calls[c].pc = "done",
                   !.calls[c].result = result,
                   !.returned = @ \cup {name}]
    ELSE LET result == BasicResult(cid, name)
             s1 == [s EXCEPT !.cache = MapSet(@, name, result),
                             !.calls[c].cid = cid]
             s2 == FetchAdditionalData(s1, c)
         IN [s2 EXCEPT !.calls[c].pc = "done",
                       !.calls[c].result = result,
                       !.returned = @ \cup {name}]

MergeWithoutStore(s, c) ==
    LET name == s.calls[c].name IN
    IF name \in DOMAIN s.cache
    THEN LET updatedData == Spread(s.cache[name], s.calls[c].propsVal,
                                   s.calls[c].smilesVal)
         IN [s EXCEPT !.events = @ \cup {[compoundName |-> name,
                                           data |-> updatedData, by |-> c,
                                           nth |-> s.calls[c].emitted + 1]},
                      !.calls[c].emitted = @ + 1,
                      !.calls[c].enr = "done"]
    ELSE [s EXCEPT !.calls[c].enr = "done"]

MergeWithoutCacheTest(s, c) ==
    LET name == s.calls[c].name
        cachedData == IF name \in DOMAIN s.cache THEN s.cache[name] ELSE EmptyMap
        updatedData == Spread(cachedData, s.calls[c].propsVal, s.calls[c].smilesVal)
    IN [s EXCEPT !.cache = MapSet(@, name, updatedData),
                 !.events = @ \cup {[compoundName |-> name,
                                      data |-> updatedData, by |-> c,
                                      nth |-> s.calls[c].emitted + 1]},
                 !.calls[c].emitted = @ + 1,
                 !.calls[c].enr = "done"]

\* fetchAdditionalData after its Promise.all
MergeAdditionalData(s, c) ==
    LET name == s.calls[c].name IN
    IF name \in DOMAIN s.cache
    THEN LET updatedData == Spread(s.cache[name], s.calls[c].propsVal,
                                   s.calls[c].smilesVal)
         IN [s EXCEPT !.cache = MapSet(@, name, updatedData),
                      !.events = @ \cup {[compoundName |-> name,
                                           data |-> updatedData, by |-> c,
                                           nth |-> s.calls[c].emitted + 1]},
                      !.calls[c].emitted = @ + 1,
                      !.calls[c].enr = "done"]
    ELSE [s EXCEPT !.calls[c].enr = "done"]

\* fetchProperties / fetchSMILES returning value v; the Promise.all of
\* fetchAdditionalData is fulfilled by the second of them.
EnrichPart(s, c, kind, v) ==
    LET s1 == IF kind = "props"
              THEN [s EXCEPT !.calls[c].props = "done", !.calls[c].propsVal = v]
              ELSE [s EXCEPT !.calls[c].smiles = "done", !.calls[c].smilesVal = v]
    IN IF s1.calls[c].props = "done" /\ s1.calls[c].smiles = "done"
       THEN MergeAdditionalData(s1, c)
       ELSE s1

----------------------------------------------------------------------------
(* Actions *)

\* fetchCompoundInfo(name) up to its first await: the cached entry, or
\* searchCompound up to its #queueRequest
StartCall(s, name, item) ==
    LET c == Len(s.calls) + 1 IN
    IF name \in DOMAIN s.cache
    THEN [s EXCEPT
            !.calls = Append(@, [NewCall(name, item) EXCEPT
                                    !.pc = "done", !.via = "cache",
                                    !.result = s.cache[name]]),
            !.returned = @ \cup {name}]
    ELSE QueueRequest([s EXCEPT !.calls = Append(@, NewCall(name, item))],
                      Req(c, "search"))

----------------------------------------------------------------------------
(* PubChemIntegration.batchFetchCompoundInfo *)

IdleBatch ==
    [compounds |-> << >>, pc |-> "idle", i |-> 0, chunk |-> {},
     results |-> EmptyMap]

\* slice(i, i + size) of a list, as places of the list
Slice(compounds, i, size) ==
    { k \in 1..Len(compounds) : i < k /\ k <= i + size }

\* batch.map(compound => this.fetchCompoundInfo(compound)), in list order
RECURSIVE StartCalls(_, _)
StartCalls(s, items) ==
    IF items = {} THEN s
    ELSE LET k == CHOOSE x \in items : \A y \in items : x <= y
             s1 == StartCall(s, s.batch.compounds[k], k)
         IN StartCalls([s1 EXCEPT !.batch.chunk = @ \cup {Len(s1.calls)}],
                       items \ {k})

StartChunkOfAllTheRest(s) ==
    StartCalls([s EXCEPT !.batch.pc = "chunk", !.batch.chunk = {}],
               Slice(s.batch.compounds, s.batch.i, Len(s.batch.compounds)))

\* The body of the for loop up to `await Promise.all(promises)`
StartChunk(s) ==
    StartCalls([s EXCEPT !.batch.pc = "chunk", !.batch.chunk = {}],
               Slice(s.batch.compounds, s.batch.i, batchSize))

ChunkSettledWhenAny(s) ==
    \E c \in s.batch.chunk : s.calls[c].pc = "done"

\* Promise.all(promises) is fulfilled: every call of the chunk has returned
\* (fetchCompoundInfo never rejects)
ChunkSettled(s) ==
    \A c \in s.batch.chunk : s.calls[c].pc = "done"

\* batchFetchCompoundInfo after `await Promise.all(promises)`
ResumeBatch(s) ==
    IF s.batch.pc = "chunk" /\ ChunkSettled(s)
    THEN LET names == { s.calls[c].name : c \in s.batch.chunk }
             \* results[compound] = batchResults[index]: the last one wins
             last(n) == CHOOSE c \in s.batch.chunk :
                           /\ s.calls[c].name = n
                           /\ \A d \in s.batch.chunk :
                                 s.calls[d].name = n => d <= c
             s1 == [s EXCEPT !.batch.results =
                       [n \in DOMAIN @ \cup names |->
                           IF n \in names THEN s.calls[last(n)].result ELSE @[n]]]
         IN IF s.batch.i + batchSize < Len(s.batch.compounds)
            THEN [s1 EXCEPT !.batch.pc = "delay",
                            !.timers = Append(@, [kind |-> "chunkDelay", owner |-> 0,
                                                  delay |-> chunkDelay])]
            ELSE [s1 EXCEPT !.batch.pc = "done"]
    ELSE s

----------------------------------------------------------------------------
(* MetaboliteMapper *)

mappings ==
    [ Glucose |-> "GLK1", Fructose |-> "PFK1", Pyruvate |-> "PDC1",
      Citrate |-> "CIT1", Malate |-> "MDH1", Lactate |-> "LDH1",
      Succinate |-> "SDH1", Fumarate |-> "FUM1",
      Oxaloacetate |-> "OAA1",
      Alanine |-> "ALT1", Glutamate |-> "GDH1", Aspartate |-> "ASP1",
      Glycine |-> "GLY1", Serine |-> "SER1" ]
    @@ ("Alpha-Ketoglutarate" :> "KGD1")

\* `mappings` and `pathways` are object literals: a property they do not have
\* themselves is looked up in Object.prototype, whose properties are
\* functions (and __proto__, an object). Some of them:
ObjectPrototype ==
    [ constructor |-> "function Object() { [native code] }",
      toString |-> "function toString() { [native code] }",
      valueOf |-> "function valueOf() { [native code] }",
      hasOwnProperty |-> "function hasOwnProperty() { [native code] }" ]

\* #simulateMapping after its delay: mappings[metaboliteName] || 'Not found'
SimulateMapping(name) ==
    IF name \in DOMAIN mappings THEN mappings[name]
    ELSE IF name \in DOMAIN ObjectPrototype THEN ObjectPrototype[name]
    ELSE "Not found"

\* The table of #simulatePathwayLookup; its arrows are written -> and <->
PathwayInfo(m, p, r) == [metabolite |-> m, pathway |-> p, reactions |-> r]

pathways ==
    [ Glucose |-> PathwayInfo("Glucose", "Glycolysis",
          << "Glucose -> Glucose-6P", "Glucose-6P -> Fructose-6P" >>),
      Fructose |-> PathwayInfo("Fructose", "Glycolysis",
          << "Fructose -> Fructose-6P", "Fructose-6P -> Fructose-1,6BP" >>),
      Pyruvate |-> PathwayInfo("Pyruvate", "TCA Cycle",
          << "Pyruvate -> Acetyl-CoA", "Acetyl-CoA + Oxaloacetate -> Citrate" >>),
      Citrate |-> PathwayInfo("Citrate", "TCA Cycle",
          << "Citrate -> Isocitrate", "Isocitrate -> a-Ketoglutarate" >>),
      Malate |-> PathwayInfo("Malate", "TCA Cycle",
          << "Malate -> Oxaloacetate", "Oxaloacetate + Acetyl-CoA -> Citrate" >>),
      Lactate |-> PathwayInfo("Lactate", "Fermentation",
          << "Pyruvate -> Lactate" >>),
      Succinate |-> PathwayInfo("Succinate", "TCA Cycle",
          << "Succinate -> Fumarate", "Fumarate -> Malate" >>),
      Fumarate |-> PathwayInfo("Fumarate", "TCA Cycle",
          << "Fumarate -> Malate", "Malate -> Oxaloacetate" >>),
      Oxaloacetate |-> PathwayInfo("Oxaloacetate", "TCA Cycle",
          << "Oxaloacetate + Acetyl-CoA -> Citrate" >>),
      Alanine |-> PathwayInfo("Alanine", "Amino Acid Metabolism",
          << "Pyruvate + Glutamate <-> Alanine + a-Ketoglutarate" >>),
      Glutamate |-> PathwayInfo("Glutamate", "Amino Acid Metabolism",
          << "a-Ketoglutarate + NH4+ <-> Glutamate" >>),
      Aspartate |-> PathwayInfo("Aspartate", "Amino Acid Metabolism",
          << "Oxaloacetate + Glutamate <-> Aspartate + a-Ketoglutarate" >>),
      Glycine |-> PathwayInfo("Glycine", "Amino Acid Metabolism",
          << "Serine -> Glycine + CH2=THF" >>),
      Serine |-> PathwayInfo("Serine", "Amino Acid Metabolism",
          << "3-Phosphoglycerate -> 3-Phosphoserine -> Serine" >>) ]
    @@ ("Alpha-Ketoglutarate" :>
          PathwayInfo("Alpha-Ketoglutarate", "TCA Cycle",
          << "a-Ketoglutarate -> Succinyl-CoA", "Succinyl-CoA -> Succinate" >>))

\* What a call from outside returned: a text, a pathway record, null, or a
\* function of Object.prototype
Result(kind, id, info) == [kind |-> kind, id |-> id, info |-> info]
NoInfo == PathwayInfo("", "", << >>)
NoResult == Result("none", "", NoInfo)

\* #simulatePathwayLookup after its delay: pathways[metaboliteName] || null
SimulatePathwayLookup(name) ==
    IF name \in DOMAIN pathways THEN Result("record", "", pathways[name])
    ELSE IF name \in DOMAIN ObjectPrototype
    THEN Result("function", ObjectPrototype[name], NoInfo)
    ELSE Result("null", "", NoInfo)

\* MetaboliteMapper.mapToGeneLocusID up to its return or its await
MapToGeneLocusIDStart(s, metaboliteName) ==
    IF metaboliteName \in DOMAIN s.mappingCache
    THEN [s EXCEPT !.direct = Append(@,
             [fn |-> "mapToGeneLocusID", name |-> metaboliteName,
              geneLocusId |-> "", pc |-> "done",
              result |-> Result("value", s.mappingCache[metaboliteName], NoInfo)])]
    ELSE [s EXCEPT
            !.timers = Append(@, [kind |-> "directMapping",
                                  owner |-> Len(s.direct) + 1,
                                  delay |-> mappingDelay]),
            !.direct = Append(@,
             [fn |-> "mapToGeneLocusID", name |-> metaboliteName,
              geneLocusId |-> "", pc |-> "mapping", result |-> NoResult])]

\* mapToGeneLocusID after `await this.#simulateMapping(...)`
MapToGeneLocusIDEnd(s, d) ==
    LET geneLocusId == SimulateMapping(s.direct[d].name) IN
    [s EXCEPT !.mappingCache = MapSet(@, s.direct[d].name, geneLocusId),
              !.direct[d].pc = "done",
              !.direct[d].result = Result("value", geneLocusId, NoInfo)]

\* MetaboliteMapper.getPathwayInformation up to its await
GetPathwayInformationStart(s, metaboliteName) ==
    [s EXCEPT
       !.timers = Append(@, [kind |-> "directLookup",
                             owner |-> Len(s.direct) + 1,
                             delay |-> pathwayDelay]),
       !.direct = Append(@,
          [fn |-> "getPathwayInformation", name |-> metaboliteName,
           geneLocusId |-> "", pc |-> "lookup", result |-> NoResult])]

\* getPathwayInformation after `await this.#simulatePathwayLookup(...)`
GetPathwayInformationEnd(s, d) ==
    [s EXCEPT !.direct[d].pc = "done",
              !.direct[d].result = SimulatePathwayLookup(s.direct[d].name)]

----------------------------------------------------------------------------
(* NetworkVisualizer *)

\* The elements of cy are kept in the order they were added
NoGraph == [initialized |-> FALSE, elements |-> << >>]

Node(id, label, type) ==
    [group |-> "nodes", id |-> id, label |-> label, type |-> type,
     source |-> "", target |-> ""]

Edge(id, source, target, label) ==
    [group |-> "edges", id |-> id, label |-> label, type |-> "edge",
     source |-> source, target |-> target]

\* cy.add of one element: cytoscape reports and leaves out an element whose
\* id is taken, and an edge whose source or target is not a node of the graph
HasNode(elements, id) ==
    \E k \in 1..Len(elements) : elements[k].group = "nodes" /\ elements[k].id = id

CyAddWhateverTheId(elements, e) ==
    IF e.group = "edges"
       /\ ~(HasNode(elements, e.source) /\ HasNode(elements, e.target))
    THEN elements
    ELSE Append(elements, e)

CyAddWithoutEndpoints(elements, e) ==
    IF \E k \in 1..Len(elements) : elements[k].id = e.id THEN elements
    ELSE Append(elements, e)

CyAdd(elements, e) ==
    IF \E k \in 1..Len(elements) : elements[k].id = e.id THEN elements
    ELSE IF e.group = "edges"
            /\ ~(HasNode(elements, e.source) /\ HasNode(elements, e.target))
    THEN elements
    ELSE Append(elements, e)

RECURSIVE AddReactionsByText(_, _, _, _)
AddReactionsByText(elements, metabolite, reactions, index) ==
    IF index >= Len(reactions) THEN elements
    ELSE LET reactionId == "r_" \o reactions[index + 1]
             e1 == CyAdd(elements, Node(reactionId, reactions[index + 1], "reaction"))
             e2 == CyAdd(e1, Edge("e_" \o metabolite \o "_reaction_" \o ToString(index),
                                  "m_" \o metabolite, reactionId,
                                  "participates in"))
         IN AddReactionsByText(e2, metabolite, reactions, index + 1)

\* reactions.forEach((reaction, index) => ...), from `index` on
RECURSIVE AddReactions(_, _, _, _)
AddReactions(elements, metabolite, reactions, index) ==
    IF index >= Len(reactions) THEN elements
    ELSE LET reactionId == "r_" \o metabolite \o "_" \o ToString(index)
             e1 == CyAdd(elements, Node(reactionId, reactions[index + 1], "reaction"))
             e2 == CyAdd(e1, Edge("e_" \o metabolite \o "_reaction_" \o ToString(index),
                                  "m_" \o metabolite, reactionId,
                                  "participates in"))
         IN AddReactions(e2, metabolite, reactions, index + 1)

\* NetworkVisualizer.addPathwayConnections
AddPathwayConnections(elements, info) ==
    LET p == "p_" \o info.pathway
        e1 == CyAdd(elements, Node(p, info.pathway, "pathway"))
        e2 == CyAdd(e1, Edge("e_" \o info.metabolite \o "_" \o info.pathway,
                             "m_" \o info.metabolite, p, "part of"))
    IN AddReactions(e2, info.metabolite, info.reactions, 0)

\* The elements addMetaboliteToPathway adds before it awaits the pathway
AddMetaboliteAndGene(elements, metaboliteName, geneLocusId) ==
    LET e1 == CyAdd(elements, Node("m_" \o metaboliteName, metaboliteName,
                                   "metabolite"))
        e2 == CyAdd(e1, Node("g_" \o geneLocusId, geneLocusId, "gene"))
    IN CyAdd(e2, Edge("e_" \o metaboliteName \o "_" \o geneLocusId,
                      "m_" \o metaboliteName, "g_" \o geneLocusId,
                      "associated with"))

\* A call from outside, at its await or returned
Direct(fn, name, geneLocusId, pc, result) ==
    [fn |-> fn, name |-> name, geneLocusId |-> geneLocusId, pc |-> pc,
     result |-> result]

\* NetworkVisualizer.addMetaboliteToPathway up to its await: nothing if the
\* view is not initialized
AddMetaboliteToPathwayStart(s, metaboliteName, geneLocusId) ==
    IF ~s.cy.initialized
    THEN [s EXCEPT !.direct = Append(@, Direct("addMetaboliteToPathway",
                                 metaboliteName, geneLocusId, "done",
                                 Result("refused", "", NoInfo)))]
    ELSE [s EXCEPT
            !.cy.elements = AddMetaboliteAndGene(@, metaboliteName, geneLocusId),
            !.timers = Append(@, [kind |-> "directPathway",
                                  owner |-> Len(s.direct) + 1,
                                  delay |-> pathwayDelay]),
            !.direct = Append(@, Direct("addMetaboliteToPathway",
                                 metaboliteName, geneLocusId, "pathway", NoResult))]

\* addMetaboliteToPathway after `await getPathwayInformation(...)`:
\* addPathwayConnections if there is a pathway, then runLayout
AddMetaboliteToPathwayEnd(s, d) ==
    LET pathwayInfo == SimulatePathwayLookup(s.direct[d].name)
        s1 == [s EXCEPT !.direct[d].pc = "done",
                        !.direct[d].result = Result("added", "", NoInfo)]
    IN IF pathwayInfo.kind = "record"
       THEN [s1 EXCEPT !.cy.elements = AddPathwayConnections(@, pathwayInfo.info)]
       ELSE s1

----------------------------------------------------------------------------
(* GCMSAnalyzer.processMetabolites *)

\* The lists given to processMetabolites: distinct names (extractMetabolites
\* keeps one metabolite per name)
MetaboliteList(n) == [i \in 1..n |-> AllNames[i]]

\* One invocation of processMetabolites: its argument, its place, its loop
\* variable, the workers of its batches; and, when it was called while
\* another invocation was suspended, that earlier invocation.
IdleProc ==
    [metabolites |-> << >>, pc |-> "idle", i |-> 0, workers |-> << >>,
     earlier |-> << >>]

\* One `async metabolite => {...}` of the batch, at its await
NewWorker(name) ==
    [name |-> name, pc |-> "map", geneLocusId |-> "Not found", call |-> 0]

\* createTableRow: the cells of gene locus and PubChem id show a spinner
NewRow(name) == [name |-> name, geneLocusId |-> "loading", pubchemId |-> "loading"]

\* updateTableRow: the row found by its id, if any
UpdateTableRow(rs, name, geneLocusId, pubchemId) ==
    IF \E k \in 1..Len(rs) : rs[k].name = name
    THEN LET k == CHOOSE x \in 1..Len(rs) :
                     /\ rs[x].name = name
                     /\ \A y \in 1..Len(rs) : rs[y].name = name => x <= y
         IN [rs EXCEPT ![k].geneLocusId = geneLocusId,
                       ![k].pubchemId = pubchemId]
    ELSE rs

WorkerLeavingFailedRow(s, w) ==
    LET wk == s.proc.workers[w]
        s1 == [s EXCEPT !.rows = UpdateTableRow(@, wk.name, wk.geneLocusId,
                                                s.calls[wk.call].result.id)]
    IN IF s.calls[wk.call].outcome = "failed"
       THEN [s EXCEPT !.proc.workers[w].pc = "done"]
       ELSE IF wk.geneLocusId # "Not found" /\ s1.cy.initialized
       THEN [s1 EXCEPT
               !.cy.elements = AddMetaboliteAndGene(@, wk.name, wk.geneLocusId),
               !.timers = Append(@, [kind |-> "pathway", owner |-> w,
                                     delay |-> pathwayDelay]),
               !.proc.workers[w].pc = "pathway"]
       ELSE [s1 EXCEPT !.proc.workers[w].pc = "done"]

\* The worker after `await PubChemIntegration.fetchCompoundInfo(...)`:
\* updateTableRow, then addMetaboliteToPathway up to its await
WorkerAfterCompound(s, w) ==
    LET wk == s.proc.workers[w]
        s1 == [s EXCEPT !.rows = UpdateTableRow(@, wk.name, wk.geneLocusId,
                                                s.calls[wk.call].result.id)]
    IN IF wk.geneLocusId # "Not found" /\ s1.cy.initialized
       THEN [s1 EXCEPT
               !.cy.elements = AddMetaboliteAndGene(@, wk.name, wk.geneLocusId),
               !.timers = Append(@, [kind |-> "pathway", owner |-> w,
                                     delay |-> pathwayDelay]),
               !.proc.workers[w].pc = "pathway"]
       ELSE [s1 EXCEPT !.proc.workers[w].pc = "done"]

\* The worker after `await MetaboliteMapper.mapToGeneLocusID(...)`
WorkerAfterMapping(s, w, geneLocusId) ==
    LET s1 == StartCall([s EXCEPT !.proc.workers[w].geneLocusId = geneLocusId],
                        s.proc.workers[w].name, 0)
        c == Len(s1.calls)
        s2 == [s1 EXCEPT !.proc.workers[w].call = c,
                         !.proc.workers[w].pc = "compound"]
    IN IF s2.calls[c].pc = "done" THEN WorkerAfterCompound(s2, w) ELSE s2

\* The worker up to its first await: mapToGeneLocusID answers from its cache
\* or starts #simulateMapping.
StartWorker(s, w) ==
    LET name == s.proc.workers[w].name IN
    IF name \in DOMAIN s.mappingCache
    THEN WorkerAfterMapping(s, w, s.mappingCache[name])
    ELSE [s EXCEPT !.timers = Append(@, [kind |-> "mapping", owner |-> w,
                                         delay |-> mappingDelay])]

RECURSIVE StartWorkers(_, _)
StartWorkers(s, items) ==
    IF items = {} THEN s
    ELSE LET k == CHOOSE x \in items : \A y \in items : x <= y
         IN StartWorkers(StartWorker(s, k), items \ {k})

\* The body of the for loop of processMetabolites up to its Promise.all:
\* the rows of the batch, then the workers of the batch
StartBatch(s) ==
    LET items == Slice(s.proc.metabolites, s.proc.i, metaboliteBatchSize)
        s1 == [s EXCEPT
                 !.proc.pc = "batch",
                 !.rows = @ \o [k \in 1..Cardinality(items) |->
                                  NewRow(s.proc.metabolites[s.proc.i + k])],
                 !.proc.workers = @ \o [k \in 1..Cardinality(items) |->
                                  NewWorker(s.proc.metabolites[s.proc.i + k])]]
    IN StartWorkers(s1, items)

\* The workers whose fetchCompoundInfo has returned go on.
RECURSIVE ResumeWorkers(_, _)
ResumeWorkers(s, from) ==
    IF from > Len(s.proc.workers) THEN s
    ELSE LET wk == s.proc.workers[from] IN
         IF wk.pc = "compound" /\ s.calls[wk.call].pc = "done"
         THEN ResumeWorkers(WorkerAfterCompound(s, from), from + 1)
         ELSE ResumeWorkers(s, from + 1)

BatchSettledWhenAny(s) ==
    \E w \in Slice(s.proc.metabolites, s.proc.i, metaboliteBatchSize) : s.proc.workers[w].pc = "done"

\* Promise.all of the batch is fulfilled: every worker has finished (a worker
\* catches what it throws).
BatchSettled(s) ==
    \A w \in Slice(s.proc.metabolites, s.proc.i, metaboliteBatchSize) : s.proc.workers[w].pc = "done"

\* processMetabolites after `await Promise.all(...)`
ResumeProc(s) ==
    IF s.proc.pc = "batch" /\ BatchSettled(s)
    THEN IF s.proc.i + metaboliteBatchSize < Len(s.proc.metabolites)
         THEN [s EXCEPT !.proc.pc = "delay",
                        !.timers = Append(@, [kind |-> "batchDelay", owner |-> 0,
                                              delay |-> batchDelay])]
         ELSE [s EXCEPT !.proc.pc = "done"]
    ELSE s


\* How the network may behave: how many requests may not succeed, and
\* whether the body of a response is read (response.json() settles) before
\* the delay that #processQueue armed when the response arrived runs out.
Free == [faults |-> 3 * MaxCalls, prompt |-> FALSE]
Limited == [faults |-> MaxFaults, prompt |-> TRUE]
Reliable == [faults |-> 0, prompt |-> TRUE]

FaultsUsed ==
    Cardinality({ c \in 1..Len(calls) : calls[c].outcome \in {"okNone", "failed"} })
    + Cardinality({ c \in 1..Len(calls) :
                      calls[c].props = "done" /\ calls[c].propsVal = EmptyMap })
    + Cardinality({ c \in 1..Len(calls) :
                      calls[c].smiles = "done" /\ calls[c].smilesVal = null })

BodiesInReading ==
    Cardinality({ c \in 1..Len(calls) : calls[c].pc = "json" })
    + Cardinality({ c \in 1..Len(calls) : calls[c].props = "json" })
    + Cardinality({ c \in 1..Len(calls) : calls[c].smiles = "json" })

MayAnswer(net, o) ==
    o \in {"okNone", "http", "net", "fail"} => FaultsUsed < net.faults

----------------------------------------------------------------------------
(* JavaScript values, as far as FileHandler needs them *)

\* A text is the sequence of its characters. A number is finite (kept in
\* thousandths: m = 1500 is 1.5), an infinity (m is its sign) or NaN.
Val(t, k, m, chars) == [t |-> t, k |-> k, m |-> m, chars |-> chars]

Num(m) == Val("number", "fin", m, << >>)
Infinity(sign) == Val("number", "inf", sign, << >>)
NaN == Val("number", "nan", 0, << >>)
Str(chars) == Val("string", "", 0, chars)
JsNull == Val("null", "", 0, << >>)
JsBool(b) == Val("boolean", IF b THEN "true" ELSE "false", 0, << >>)

Upper == << "A", "B", "C", "D", "E", "F", "G", "H", "I", "J", "K", "L", "M",
            "N", "O", "P", "Q", "R", "S", "T", "U", "V", "W", "X", "Y", "Z" >>
Lower == << "a", "b", "c", "d", "e", "f", "g", "h", "i", "j", "k", "l", "m",
            "n", "o", "p", "q", "r", "s", "t", "u", "v", "w", "x", "y", "z" >>
Digits == << "0", "1", "2", "3", "4", "5", "6", "7", "8", "9" >>

IsSpace(c) == c \in { " ", "\t", "\n", "\r" }
IsDigit(c) == \E d \in 1..10 : Digits[d] = c
DigitVal(c) == (CHOOSE d \in 1..10 : Digits[d] = c) - 1

\* String.prototype.toLowerCase
ToLowerCase(chars) ==
    [i \in 1..Len(chars) |->
        IF \E u \in 1..26 : Upper[u] = chars[i]
        THEN Lower[CHOOSE u \in 1..26 : Upper[u] = chars[i]]
        ELSE chars[i]]

\* String.prototype.trim
Trim(chars) ==
    LET inner == { i \in 1..Len(chars) : ~IsSpace(chars[i]) } IN
    IF inner = {} THEN << >>
    ELSE SubSeq(chars, CHOOSE i \in inner : \A j \in inner : i <= j,
                       CHOOSE i \in inner : \A j \in inner : j <= i)

\* The text of a whole string, for use as a name elsewhere in the model
RECURSIVE Text(_)
Text(chars) == IF chars = << >> THEN "" ELSE Head(chars) \o Text(Tail(chars))

\* String(v) for the values that are not numbers
JsString(v) ==
    CASE v.t = "string"  -> v.chars
      [] v.t = "null"    -> << "n", "u", "l", "l" >>
      [] v.t = "boolean" -> IF v.k = "true" THEN << "t", "r", "u", "e" >>
                            ELSE << "f", "a", "l", "s", "e" >>
      [] OTHER           -> << >>

\* The number of digits of chars from place i on
RECURSIVE DigitRun(_, _)
DigitRun(chars, i) ==
    IF i <= Len(chars) /\ IsDigit(chars[i]) THEN 1 + DigitRun(chars, i + 1) ELSE 0

\* The value of the digits chars[i..i+n-1]
RECURSIVE DigitsVal(_, _, _)
DigitsVal(chars, i, n) ==
    IF n = 0 THEN 0
    ELSE 10 * DigitsVal(chars, i, n - 1) + DigitVal(chars[i + n - 1])

\* The thousandths of the fraction digits chars[i..i+n-1] (further digits
\* are below what the model keeps)
FractionVal(chars, i, n) ==
    (IF n >= 1 THEN 100 * DigitVal(chars[i]) ELSE 0)
    + (IF n >= 2 THEN 10 * DigitVal(chars[i + 1]) ELSE 0)
    + (IF n >= 3 THEN DigitVal(chars[i + 2]) ELSE 0)

RECURSIVE Pow10(_)
Pow10(n) == IF n = 0 THEN 1 ELSE 10 * Pow10(n - 1)

StartsWith(chars, i, word) ==
    /\ i + Len(word) - 1 <= Len(chars)
    /\ SubSeq(chars, i, i + Len(word) - 1) = word

\* The element of a set of one element. A value that is needed many times
\* is computed once by binding it: Only({ F(x) : x \in { value } }).
Only(set) == CHOOSE x \in set : TRUE

\* The place of the first character of chars that is not white space
SkipWhiteSpace(chars) ==
    LET rest == { i \in 1..Len(chars) : ~IsSpace(chars[i]) }
    IN IF rest = {} THEN Len(chars) + 1
       ELSE CHOOSE i \in rest : \A j \in rest : i <= j

\* The greatest decimal exponent of a finite double
maxExponent == 308

\* What a scan of a text for a number finds: the value, and the place behind
\* the last character that belongs to it
Scanned(v, end) == [v |-> v, end |-> end]

\* The exponent part from place i3 on, if there is one, applied to the
\* mantissa; a value beyond the greatest double is an infinity
ParseExponent(chars, i3, sign, mantissa) ==
    LET hasE == i3 <= Len(chars) /\ chars[i3] \in { "e", "E" }
        eSigned == hasE /\ i3 + 1 <= Len(chars) /\ chars[i3 + 1] \in { "+", "-" }
        i4 == IF eSigned THEN i3 + 2 ELSE i3 + 1
    IN Only({ IF n3 = 0 THEN Scanned(Num(sign * mantissa), i3)
              ELSE IF mantissa = 0 THEN Scanned(Num(0), i4 + n3)
              ELSE IF eSigned /\ chars[i3 + 1] = "-"
              THEN IF n3 > 3 \/ DigitsVal(chars, i4, n3) > maxExponent
                   THEN Scanned(Num(0), i4 + n3)
                   ELSE Scanned(Num(sign * (mantissa
                                    \div Pow10(DigitsVal(chars, i4, n3)))), i4 + n3)
              ELSE IF n3 > 3 \/ DigitsVal(chars, i4, n3) > maxExponent
                   THEN Scanned(Infinity(sign), i4 + n3)
                   ELSE Scanned(Num(sign * mantissa * Pow10(DigitsVal(chars, i4, n3))),
                                i4 + n3) :
              n3 \in { IF hasE THEN DigitRun(chars, i4) ELSE 0 } })

\* The digits from place i1 on, their fraction and their exponent
ParseDecimal(chars, sign, i1, n1) ==
    LET i2 == i1 + n1
        dot == i2 <= Len(chars) /\ chars[i2] = "."
    IN Only({ IF n1 + n2 = 0 THEN Scanned(NaN, 1)
              ELSE ParseExponent(chars, IF dot THEN i2 + 1 + n2 ELSE i2, sign,
                                 1000 * DigitsVal(chars, i1, n1)
                                 + FractionVal(chars, i2 + 1, n2)) :
              n2 \in { IF dot THEN DigitRun(chars, i2 + 1) ELSE 0 } })

\* The literal from place i0 on
ParseLiteral(chars, i0) ==
    LET signed == i0 <= Len(chars) /\ chars[i0] \in { "+", "-" }
        sign == IF signed /\ chars[i0] = "-" THEN -1 ELSE 1
        i1 == IF signed THEN i0 + 1 ELSE i0
        word == << "I", "n", "f", "i", "n", "i", "t", "y" >>
    IN IF StartsWith(chars, i1, word)
       THEN Scanned(Infinity(sign), i1 + Len(word))
       ELSE Only({ ParseDecimal(chars, sign, i1, n1) :
                   n1 \in { DigitRun(chars, i1) } })

\* The scan of parseFloat: leading white space is skipped, then the longest
\* prefix that is a decimal literal (sign, Infinity, digits, fraction,
\* exponent) is the value, whatever follows it; NaN if there is none.
ScanFloat(text) ==
    Only({ ParseLiteral(chars, i0) :
           chars \in { text }, i0 \in { SkipWhiteSpace(text) } })

\* parseFloat of a text
ParseFloatText(text) == ScanFloat(text).v

\* parseFloat(v): of the text of v; a number is the value of its own text
ParseFloat(v) ==
    IF v.t = "number" THEN v ELSE ParseFloatText(JsString(v))

\* isNaN of a number
IsNaN(v) == v.k = "nan"

\* The truthiness of a value
Truthy(v) ==
    CASE v.t = "string"  -> v.chars # << >>
      [] v.t = "number"  -> ~(v.k = "nan" \/ (v.k = "fin" /\ v.m = 0))
      [] v.t = "boolean" -> v.k = "true"
      [] OTHER           -> FALSE

----------------------------------------------------------------------------
(* FileHandler.validateData *)

\* The parsed data: the keys of the row objects, in order, and the rows, each
\* a function from the keys to the values of its cells.
Data(headers, rs) == [headers |-> headers, rows |-> rs]

requiredColumns ==
    << << "M", "e", "t", "a", "b", "o", "l", "i", "t", "e" >>,
       << "R", "e", "t", "e", "n", "t", "i", "o", "n", "T", "i", "m", "e" >>,
       << "I", "n", "t", "e", "n", "s", "i", "t", "y" >> >>

\* requiredColumns.filter(col => !normalizedHeaders.includes(col.toLowerCase()))
MissingColumns(headers) ==
    { c \in 1..Len(requiredColumns) :
        \A h \in 1..Len(headers) :
            ToLowerCase(headers[h]) # ToLowerCase(requiredColumns[c]) }

\* headers.find(h => h.toLowerCase() === col): the first such header
FindHeader(headers, c) ==
    LET hits == { h \in 1..Len(headers) :
                    ToLowerCase(headers[h]) = ToLowerCase(requiredColumns[c]) }
    IN headers[CHOOSE h \in hits : \A g \in hits : h <= g]

ColumnMapping(headers) ==
    [ Metabolite |-> FindHeader(headers, 1),
      RetentionTime |-> FindHeader(headers, 2),
      Intensity |-> FindHeader(headers, 3) ]

Ok(value) == [ok |-> TRUE, value |-> value, error |-> "", row |-> 0]
Err(error, row) == [ok |-> FALSE, value |-> << >>, error |-> error, row |-> row]

\* The callback of data.map for the row at `index` (from 0): the normalized
\* row, or the error it throws, which names row index + 1
ValidateRowNameFirst(row, index, columnMapping) ==
    LET retentionTime == ParseFloat(row[columnMapping.RetentionTime])
        intensity == ParseFloat(row[columnMapping.Intensity])
        metaboliteName == row[columnMapping.Metabolite]
        mapped == { columnMapping.Metabolite, columnMapping.RetentionTime,
                    columnMapping.Intensity }
    IN IF ~Truthy(metaboliteName) \/ metaboliteName.t # "string"
       THEN Err("Invalid or missing metabolite name", index + 1)
       ELSE IF IsNaN(retentionTime)
       THEN Err("Invalid retention time", index + 1)
       ELSE IF IsNaN(intensity)
       THEN Err("Invalid intensity value", index + 1)
       ELSE Ok([ name |-> Trim(metaboliteName.chars),
                 retentionTime |-> retentionTime,
                 intensity |-> intensity,
                 additionalData |-> [k \in (DOMAIN row) \ mapped |-> row[k]] ])

ValidateRow(row, index, columnMapping) ==
    LET retentionTime == ParseFloat(row[columnMapping.RetentionTime])
        intensity == ParseFloat(row[columnMapping.Intensity])
        metaboliteName == row[columnMapping.Metabolite]
        mapped == { columnMapping.Metabolite, columnMapping.RetentionTime,
                    columnMapping.Intensity }
    IN IF IsNaN(retentionTime)
       THEN Err("Invalid retention time", index + 1)
       ELSE IF IsNaN(intensity)
       THEN Err("Invalid intensity value", index + 1)
       ELSE IF ~Truthy(metaboliteName) \/ metaboliteName.t # "string"
       THEN Err("Invalid or missing metabolite name", index + 1)
       ELSE Ok([ name |-> Trim(metaboliteName.chars),
                 retentionTime |-> retentionTime,
                 intensity |-> intensity,
                 additionalData |-> [k \in (DOMAIN row) \ mapped |-> row[k]] ])

\* FileHandler.validateData: the normalized rows, or the first error thrown
ValidateData(data) ==
    IF Len(data.rows) = 0
    THEN Err("The file appears to be empty.", 0)
    ELSE IF MissingColumns(data.headers) # {}
    THEN Err("Missing required columns", 0)
    ELSE LET columnMapping == ColumnMapping(data.headers)
             results == [i \in 1..Len(data.rows) |->
                            ValidateRow(data.rows[i], i - 1, columnMapping)]
             bad == { i \in 1..Len(data.rows) : ~results[i].ok }
         IN IF bad = {}
            THEN Ok([i \in 1..Len(data.rows) |-> results[i].value])
            ELSE results[CHOOSE i \in bad : \A j \in bad : i <= j]

----------------------------------------------------------------------------
(* ChromatogramAnalyzer *)

\* a - b on numbers
Minus(a, b) ==
    IF a.k = "nan" \/ b.k = "nan" THEN NaN
    ELSE IF a.k = "fin" /\ b.k = "fin" THEN Num(a.m - b.m)
    ELSE IF a.k = "inf" /\ b.k = "fin" THEN a
    ELSE IF a.k = "fin" /\ b.k = "inf" THEN Infinity(-b.m)
    ELSE IF a.m = b.m THEN NaN ELSE a

\* a + b on numbers
Plus(a, b) ==
    IF a.k = "nan" \/ b.k = "nan" THEN NaN
    ELSE IF a.k = "fin" /\ b.k = "fin" THEN Num(a.m + b.m)
    ELSE IF a.k = "inf" /\ b.k = "fin" THEN a
    ELSE IF a.k = "fin" /\ b.k = "inf" THEN b
    ELSE IF a.m = b.m THEN a ELSE NaN

\* a / n for a count n > 0, to the thousandth
DividedBy(a, n) == IF a.k = "fin" THEN Num(a.m \div n) ELSE a

\* Array.prototype.sort places a after b when comparefn(a, b) > 0; a result
\* of NaN counts as 0.
IsPositive(v) == (v.k = "fin" /\ v.m > 0) \/ (v.k = "inf" /\ v.m = 1)

\* (a, b) => a.retentionTime - b.retentionTime
ByRetentionTime(a, b) == Minus(a.retentionTime, b.retentionTime)

InsertBeforeEqual(sorted, x) ==
    LET n == Cardinality({ i \in 1..Len(sorted) :
                             IsPositive(ByRetentionTime(x, sorted[i])) })
    IN SubSeq(sorted, 1, n) \o << x >> \o SubSeq(sorted, n + 1, Len(sorted))

\* x put into a sorted list, behind the elements that do not sort after it
InsertSorted(sorted, x) ==
    LET n == Cardinality({ i \in 1..Len(sorted) :
                             ~IsPositive(ByRetentionTime(sorted[i], x)) })
    IN SubSeq(sorted, 1, n) \o << x >> \o SubSeq(sorted, n + 1, Len(sorted))

\* [...data].sort(comparefn): the sort is stable (ECMAScript 2019)
RECURSIVE SortedData(_)
SortedData(data) ==
    IF data = << >> THEN << >>
    ELSE Only({ InsertSorted(sorted, data[Len(data)]) :
                sorted \in { SortedData(SubSeq(data, 1, Len(data) - 1)) } })

\* The three arrays mapped from the rows in an order
Series(sortedData) ==
    [ times |-> [i \in 1..Len(sortedData) |-> sortedData[i].retentionTime],
      intensities |-> [i \in 1..Len(sortedData) |-> sortedData[i].intensity],
      labels |-> [i \in 1..Len(sortedData) |-> sortedData[i].name] ]

ExtractChromatogramDataUnsorted(data) == Series(data)

\* ChromatogramAnalyzer.extractChromatogramData
ExtractChromatogramData(data) ==
    Only({ Series(sortedData) : sortedData \in { SortedData(data) } })

\* The places of the rows that are the first of their name: the keys of a
\* Map filled in row order, in insertion order
FirstSeen(data) ==
    { i \in 1..Len(data) : \A j \in 1..(i - 1) : data[j].name # data[i].name }

\* The k-th smallest element of a set of numbers
RECURSIVE Nth(_, _)
Nth(set, k) ==
    LET least == CHOOSE x \in set : \A y \in set : x <= y IN
    IF k = 1 THEN least ELSE Nth(set \ {least}, k - 1)

RECURSIVE Sum(_, _)
Sum(data, places) ==
    IF places = {} THEN Num(0)
    ELSE LET last == CHOOSE x \in places : \A y \in places : y <= x
         IN Plus(Sum(data, places \ {last}), data[last].intensity)

\* ChromatogramAnalyzer.extractMassSpectraData: per name, in first-seen
\* order, the mean of the intensities of its rows
ExtractMassSpectraData(data) ==
    LET first == FirstSeen(data)
        rowsOf(i) == { j \in 1..Len(data) : data[j].name = data[i].name }
    IN [ metabolites |-> [k \in 1..Cardinality(first) |-> data[Nth(first, k)].name],
         intensities |-> [k \in 1..Cardinality(first) |->
                             DividedBy(Sum(data, rowsOf(Nth(first, k))),
                                       Cardinality(rowsOf(Nth(first, k))))] ]

\* The numbers of findPeaks and calculateArea are whole numbers; a threshold
\* is counted in tenths, an area in halves, so that the products and the
\* division by two are exact. Math.max of no arguments is -Infinity, and an
\* element past the end of an array is undefined, which makes the sum NaN.
defaultThreshold == 1

Finite(n) == [finite |-> TRUE, n |-> n]
MinusInfinity == [finite |-> FALSE, n |-> 0]
NotANumber == [nan |-> TRUE, halves |-> 0]
Halves(n) == [nan |-> FALSE, halves |-> n]

\* Math.max(...intensities)
RECURSIVE MathMax(_)
MathMax(intensities) ==
    IF intensities = << >> THEN MinusInfinity
    ELSE LET rest == MathMax(Tail(intensities)) IN
         IF rest.finite /\ rest.n >= Head(intensities) THEN rest
         ELSE Finite(Head(intensities))

\* intensity > maxIntensity * threshold, the threshold in tenths
AboveHeight(intensity, maxIntensity, threshold) ==
    IF maxIntensity.finite THEN 10 * intensity > maxIntensity.n * threshold
    ELSE TRUE

\* The loop of findPeaks from index i (of the array, from 0) on
RECURSIVE FindPeaksLoop(_, _, _, _)
FindPeaksLoop(intensities, maxIntensity, threshold, i) ==
    IF ~(i < Len(intensities) - 1) THEN << >>
    ELSE (IF /\ AboveHeight(intensities[i + 1], maxIntensity, threshold)
             /\ intensities[i + 1] > intensities[i]
             /\ intensities[i + 1] > intensities[i + 2]
          THEN << i >> ELSE << >>)
         \o FindPeaksLoop(intensities, maxIntensity, threshold, i + 1)

RECURSIVE PlateausLoop(_, _, _, _)
PlateausLoop(intensities, maxIntensity, threshold, i) ==
    IF ~(i < Len(intensities) - 1) THEN << >>
    ELSE (IF /\ AboveHeight(intensities[i + 1], maxIntensity, threshold)
             /\ intensities[i + 1] >= intensities[i]
             /\ intensities[i + 1] > intensities[i + 2]
          THEN << i >> ELSE << >>)
         \o PlateausLoop(intensities, maxIntensity, threshold, i + 1)

FindPeaksWithPlateaus(intensities, threshold) ==
    PlateausLoop(intensities, MathMax(intensities), threshold, 1)

\* ChromatogramAnalyzer.findPeaks: the indices (from 0) of the peaks
FindPeaks(intensities, threshold) ==
    FindPeaksLoop(intensities, MathMax(intensities), threshold, 1)

\* array[i] of a JavaScript array, i from 0: undefined past the end
Defined(array, i) == i + 1 \in DOMAIN array

\* area += dt * avgIntensity, the area in halves
AddTrapezoid(area, times, intensities, i) ==
    IF area.nan \/ ~Defined(intensities, i) \/ ~Defined(intensities, i - 1)
    THEN NotANumber
    ELSE Halves(area.halves
                  + (times[i + 1] - times[i]) * (intensities[i + 1] + intensities[i]))

AddRectangle(area, times, intensities, i) ==
    IF area.nan \/ ~Defined(intensities, i) \/ ~Defined(intensities, i - 1)
    THEN NotANumber
    ELSE Halves(area.halves + (times[i + 1] - times[i]) * 2 * intensities[i + 1])

\* The loop of calculateArea from index i on
RECURSIVE AreaLoop(_, _, _, _)
AreaLoop(times, intensities, i, area) ==
    IF ~(i < Len(times)) THEN area
    ELSE AreaLoop(times, intensities, i + 1, AddTrapezoid(area, times, intensities, i))

RECURSIVE RectangleLoop(_, _, _, _)
RectangleLoop(times, intensities, i, area) ==
    IF ~(i < Len(times)) THEN area
    ELSE RectangleLoop(times, intensities, i + 1, AddRectangle(area, times, intensities, i))

CalculateAreaByRectangles(times, intensities) ==
    RectangleLoop(times, intensities, 1, Halves(0))

\* ChromatogramAnalyzer.calculateArea
CalculateArea(times, intensities) == AreaLoop(times, intensities, 1, Halves(0))

LastSeen(data) ==
    { i \in 1..Len(data) : \A j \in (i + 1)..Len(data) : data[j].name # data[i].name }

ExtractMetabolitesKeepingLast(data) ==
    LET last == LastSeen(data) IN
    [k \in 1..Cardinality(last) |->
        LET row == data[Nth(last, k)] IN
        [ name |-> row.name, retentionTime |-> row.retentionTime,
          intensity |-> row.intensity, additionalData |-> row.additionalData ]]

\* ChromatogramAnalyzer.extractMetabolites: the first row of each name
ExtractMetabolites(data) ==
    LET first == FirstSeen(data) IN
    [k \in 1..Cardinality(first) |->
        LET row == data[Nth(first, k)] IN
        [ name |-> row.name, retentionTime |-> row.retentionTime,
          intensity |-> row.intensity, additionalData |-> row.additionalData ]]

\* ChromatogramAnalyzer.processData
ProcessData(data) ==
    [ chromatogramData |-> ExtractChromatogramData(data),
      massSpectraData |-> ExtractMassSpectraData(data),
      metabolites |-> ExtractMetabolites(data) ]

----------------------------------------------------------------------------
(* Sample texts, rows and files *)

\* A file chosen by the user: its MIME type and name, and what Papa.parse
\* makes of its content: a read error, or results.errors (their number) and
\* results.data
File(type, name, readError, errors, data) ==
    [type |-> type, name |-> name, readError |-> readError, errors |-> errors,
     data |-> data]

GLUCOSE == << "G", "l", "u", "c", "o", "s", "e" >>
CAFFEINE == << "C", "a", "f", "f", "e", "i", "n", "e" >>
CSVSUFFIX == << ".", "c", "s", "v" >>
ACSV == << "a", ".", "c", "s", "v" >>
ATXT == << "a", ".", "t", "x", "t" >>

\* A row object with the three required columns as its keys
Row3(name, retentionTime, intensity) ==
    (requiredColumns[1] :> name) @@ (requiredColumns[2] :> retentionTime)
    @@ (requiredColumns[3] :> intensity)

GoodData ==
    Data(requiredColumns, << Row3(Str(GLUCOSE), Num(1500), Num(10000)),
                             Row3(Str(CAFFEINE), Num(2500), Num(20000)) >>)

\* The cells of the rows given to validateData from outside: what Papa.parse
\* with dynamicTyping makes of a field (a number, null for an empty field, the
\* text of a field that is no plain finite number), and a name that is white
\* space or no text
SampleNames ==
    { Str(GLUCOSE), Str(<< " " >> \o CAFFEINE \o << " " >>), Str(<< " ", " " >>),
      Num(7000) }
SampleTimes ==
    { Num(1500), Str(<< "1", "2", "a", "b", "c" >>), Str(<< "a", "b", "c" >>),
      Str(<< "I", "n", "f", "i", "n", "i", "t", "y" >>) }
SampleIntensities == { Num(10000), JsNull }

SampleRows ==
    { Row3(name, retentionTime, intensity) :
        name \in SampleNames, retentionTime \in SampleTimes,
        intensity \in SampleIntensities }

\* The data given to validateData from outside: up to MaxRows rows
SampleData ==
    { Data(requiredColumns, rs) :
        rs \in UNION { [1..n -> SampleRows] : n \in 0..MaxRows } }

\* A validated row
Point(name, retentionTime, intensity) ==
    [ name |-> name, retentionTime |-> retentionTime, intensity |-> intensity,
      additionalData |-> EmptyMap ]

\* The rows given to extractChromatogramData from outside: rows that differ
\* in name or intensity at one retention time, rows at another time, and a
\* row whose retention time is Infinity (validateData lets it through)
SamplePoints ==
    { Point(GLUCOSE, Num(1000), Num(10000)), Point(CAFFEINE, Num(1000), Num(20000)),
      Point(GLUCOSE, Num(2000), Num(10000)),
      Point(CAFFEINE, Num(500), Num(20000)), Point(CAFFEINE, Infinity(1), Num(10000)) }

\* The orders of n rows
Orders(n) == { p \in [1..n -> 1..n] : \A i, j \in 1..n : p[i] = p[j] => i = j }

\* The rows in another order
Reordered(data, order) == [i \in 1..Len(data) |-> data[order[i]]]

\* Up to MaxPoints rows, and an order to put them in
SampleSeries ==
    UNION { { [data |-> data, order |-> order] :
              data \in [1..n -> SamplePoints], order \in Orders(n) } :
            n \in 0..MaxPoints }

\* The rows of a file with a fourth column: names that are one name after
\* trimming, the name in another case, and two retention times, each with a
\* note of its own
NOTE == << "N", "o", "t", "e" >>
NamedRows ==
    { Row3(Str(name), cell[1], Num(10000)) @@ (NOTE :> cell[2]) :
        name \in { GLUCOSE, << " " >> \o GLUCOSE \o << " " >>,
                   ToLowerCase(GLUCOSE) },
        cell \in { << Num(1000), Str(<< "a" >>) >>, << Num(2000), Str(<< "b" >>) >> } }

\* The data of such a file: up to MaxNamed rows
NamedData ==
    { Data(requiredColumns \o << NOTE >>, rs) :
        rs \in UNION { [1..n -> NamedRows] : n \in 1..MaxNamed } }

\* The arrays given to findPeaks: up to MaxSamples + 1 intensities, below
\* zero, zero, small and large, with the default threshold and a higher one
SampleIntensityArrays ==
    UNION { [1..n -> { -1, 0, 1, 5, 60 }] : n \in 0..(MaxSamples + 1) }

SampleThresholds == { defaultThreshold, 5 }

\* The arrays given to calculateArea: up to MaxAreaPoints points, and the
\* same times with the last intensity missing
SampleCurves ==
    { [ times |-> [i \in 1..Len(points) |-> points[i][1]],
        intensities |-> [i \in 1..(Len(points) - short) |-> points[i][2]] ] :
        points \in UNION { [1..n -> { 0, 1, 2 } \X { 0, 5, 10 }] : n \in 0..MaxAreaPoints },
        short \in { 0, 1 } }

\* The files the user can choose, by name: one that can be processed, and the
\* files that fail: of the wrong type, unreadable, with parse errors, empty,
\* without the Intensity column, with a non-numeric retention time
Files ==
    [ good |-> File("text/csv", ACSV, FALSE, 0, GoodData),
      wrongType |-> File("text/plain", ATXT, FALSE, 0, GoodData),
      unreadable |-> File("text/csv", ACSV, TRUE, 0, Data(<< >>, << >>)),
      parseErrors |-> File("text/csv", ACSV, FALSE, 1, GoodData),
      empty |-> File("text/plain", ACSV, FALSE, 0, Data(requiredColumns, << >>)),
      missingColumn |->
          File("text/csv", ACSV, FALSE, 0,
               Data(<< requiredColumns[1], requiredColumns[2] >>,
                    << (requiredColumns[1] :> Str(GLUCOSE))
                       @@ (requiredColumns[2] :> Num(1500)) >>)),
      badRow |->
          File("text/csv", ACSV, FALSE, 0,
               Data(requiredColumns,
                    << Row3(Str(GLUCOSE), Num(1500), Num(10000)),
                       Row3(Str(CAFFEINE), Str(<< "a", "b", "c" >>), Num(20000)) >>)) ]

----------------------------------------------------------------------------
(* GCMSAnalyzer.handleFileUpload and FileHandler.parseFile *)

validTypes == { "text/csv", "application/vnd.ms-excel" }

\* String.prototype.endsWith
EndsWith(chars, word) ==
    /\ Len(word) <= Len(chars)
    /\ SubSeq(chars, Len(chars) - Len(word) + 1, Len(chars)) = word

\* FileHandler.validateFileType
ValidateFileType(file) ==
    file.type \in validTypes \/ EndsWith(file.name, CSVSUFFIX)

\* What the promise of parseFile settles with, once Papa.parse has called
\* `error` or `complete`
ParseOutcome(file) ==
    IF file.readError THEN Err("Error parsing CSV file", 0)
    ELSE IF file.errors > 0 THEN Err("CSV parsing errors", 0)
    ELSE ValidateData(file.data)

\* The file gets as far as processMetabolites
FileOk(file) == ValidateFileType(file) /\ ParseOutcome(file).ok

NoStatus == [type |-> "none", message |-> "", row |-> 0]
NoCharts == [chromatogram |-> << >>, massSpectra |-> << >>]
NoProbe == [fn |-> "none", arg |-> << >>, out |-> << >>, pc |-> "idle"]

\* Nothing has been uploaded, and no function is being probed.
NoFileHandling ==
    /\ uploads = << >>
    /\ uploadStatus = NoStatus
    /\ charts = NoCharts
    /\ probe = NoProbe
    /\ direct = << >>

\* showStatus(message, type), and the listener of 'file-processing-status'
ShowStatus(s, message, type, row) ==
    [s EXCEPT !.uploadStatus = [type |-> type, message |-> message, row |-> row]]

\* handleFileUpload up to `await FileHandler.parseFile(file)`; a file of the
\* wrong type makes parseFile throw at once, and the catch shows the error.
StartUpload(s, file) ==
    LET s1 == ShowStatus(s, "Loading file...", "loading", 0) IN
    IF ~ValidateFileType(Files[file])
    THEN [ShowStatus(s1, "Error: Invalid file type. Please upload a CSV file.",
                     "error", 0)
            EXCEPT !.uploads = Append(@, [file |-> file, pc |-> "failed"])]
    ELSE [s1 EXCEPT !.uploads = Append(@, [file |-> file, pc |-> "parsing"])]

AfterParseClearingTable(s, u) ==
    LET file == Files[s.uploads[u].file]
        s1 == IF file.readError THEN s
              ELSE ShowStatus(s, "Parsing CSV file...", "parsing", 0)
        outcome == ParseOutcome(file)
    IN IF ~outcome.ok
       THEN [ShowStatus(s1, << "Error: ", outcome.error >>, "error", outcome.row)
               EXCEPT !.uploads[u].pc = "failed", !.rows = << >>]
       ELSE LET processedData == ProcessData(outcome.value)
                s2 == [s1 EXCEPT
                         !.charts = [chromatogram |-> processedData.chromatogramData,
                                     massSpectra |-> processedData.massSpectraData],
                         !.cy.initialized = TRUE,
                         !.uploads[u].pc = "processing",
                         !.rows = << >>,
                         !.proc = [IdleProc EXCEPT !.metabolites =
                                      [k \in 1..Len(processedData.metabolites) |->
                                          Text(processedData.metabolites[k].name)]]]
            IN StartBatch(s2)

\* Papa.parse has read the file: parseFile settles and handleFileUpload goes
\* on, to its catch, or through processData and updateVisualizations to
\* processMetabolites up to its first await.
AfterParse(s, u) ==
    LET file == Files[s.uploads[u].file]
        s1 == IF file.readError THEN s
              ELSE ShowStatus(s, "Parsing CSV file...", "parsing", 0)
        outcome == ParseOutcome(file)
    IN IF ~outcome.ok
       THEN [ShowStatus(s1, << "Error: ", outcome.error >>, "error", outcome.row)
               EXCEPT !.uploads[u].pc = "failed"]
       ELSE LET processedData == ProcessData(outcome.value)
                s2 == [s1 EXCEPT
                         !.charts = [chromatogram |-> processedData.chromatogramData,
                                     massSpectra |-> processedData.massSpectraData],
                         !.cy.initialized = TRUE,
                         !.uploads[u].pc = "processing",
                         !.rows = << >>,
                         !.proc = [IdleProc EXCEPT !.metabolites =
                                      [k \in 1..Len(processedData.metabolites) |->
                                          Text(processedData.metabolites[k].name)]]]
            IN StartBatch(s2)

\* handleFileUpload after `await this.processMetabolites(...)`
ResumeUpload(s) ==
    IF s.proc.pc = "done" /\ \E u \in 1..Len(s.uploads) : s.uploads[u].pc = "processing"
    THEN [ShowStatus(s, "File processed successfully!", "success", 0)
            EXCEPT !.uploads = [u \in 1..Len(s.uploads) |->
                                  IF s.uploads[u].pc = "processing"
                                  THEN [s.uploads[u] EXCEPT !.pc = "done"]
                                  ELSE s.uploads[u]]]
    ELSE s

\* The timers of the invocation in s.proc and of the earlier one are told
\* apart by their kind.
OtherKind(kind) ==
    CASE kind = "mapping" -> "earlierMapping"
      [] kind = "pathway" -> "earlierPathway"
      [] kind = "batchDelay" -> "earlierBatchDelay"
      [] kind = "earlierMapping" -> "mapping"
      [] kind = "earlierPathway" -> "pathway"
      [] kind = "earlierBatchDelay" -> "batchDelay"
      [] OTHER -> kind

\* The same state seen from the other invocation of processMetabolites: the
\* two closures run the same code on the same table, queue and graph, each
\* with its own metabolites, i and workers.
OtherInvocation(s) ==
    [s EXCEPT
       !.proc = [s.proc.earlier[1] EXCEPT
                   !.earlier = << [s.proc EXCEPT !.earlier = << >>] >>],
       !.timers = [k \in 1..Len(s.timers) |->
                     [s.timers[k] EXCEPT !.kind = OtherKind(@)]]]

ResumeInvocation(s) == ResumeUpload(ResumeProc(ResumeWorkers(ResumeBatch(s), 1)))

\* The code that was waiting for what a task has settled goes on.
Resume(s) ==
    IF s.proc.earlier = << >> THEN ResumeInvocation(s)
    ELSE OtherInvocation(ResumeInvocation(OtherInvocation(ResumeInvocation(s))))

----------------------------------------------------------------------------
(* Actions *)

\* fetchCompoundInfo(name), called from outside
FetchCompoundInfo(name) ==
    /\ Len(calls) < MaxCalls
    /\ Assign(StartCall(St, name, 0))

\* The fetch of a request settles: #processQueue resolves or rejects the
\* request's promise and arms its delay; then the function that awaited the
\* request goes on.
Settle(l, o) ==
    LET r == l.req
        c == r.call
        s1 == ArmDelay(St, l)
    IN IF r.kind = "search"
       THEN IF o \in {"okCid", "okNone"}
            THEN [s1 EXCEPT !.calls[c].pc = "json", !.calls[c].outcome = o]
            ELSE AfterSearch([s1 EXCEPT !.calls[c].outcome = "failed"], c, null)
       ELSE IF o = "ok"
            THEN IF r.kind = "props"
                 THEN [s1 EXCEPT !.calls[c].props = "json"]
                 ELSE [s1 EXCEPT !.calls[c].smiles = "json"]
            ELSE EnrichPart(s1, c, r.kind,
                            IF r.kind = "props" THEN EmptyMap ELSE null)

FetchSettle(net) ==
    \E l \in loops :
        /\ l.pc = "fetch"
        /\ \E o \in (IF l.req.kind = "search" THEN SearchOutcomes ELSE EnrichOutcomes) :
              /\ MayAnswer(net, o)
              /\ Assign(Resume(Settle(l, o)))

\* response.json() of the search request settles: searchCompound returns.
SearchJson ==
    \E c \in 1..Len(calls) :
        /\ calls[c].pc = "json"
        /\ Assign(Resume(AfterSearch(St, c,
                    IF calls[c].outcome = "okCid"
                    THEN ServerCid(calls[c].name) ELSE null)))

\* response.json() of a property or SMILES request settles.
EnrichJson ==
    \E c \in 1..Len(calls) :
        \/ /\ calls[c].props = "json"
           /\ Assign(EnrichPart(St, c, "props", ServerProperties(calls[c].cid)))
        \/ /\ calls[c].smiles = "json"
           /\ Assign(EnrichPart(St, c, "smiles", ServerSMILES(calls[c].cid)))

\* setTimeout callbacks run in arming order among equal delays; a timer may
\* overtake only timers with a longer delay.
CanFire(i) == \A j \in 1..(i - 1) : timers[j].delay > timers[i].delay

\* The delay of #processQueue is over: back to the head of its loop.
DelayFire(net) ==
    \E i \in 1..Len(timers) :
        /\ timers[i].kind = "requestDelay"
        /\ CanFire(i)
        /\ net.prompt => BodiesInReading = 0
        /\ LET seq == timers[i].owner
               s1 == [St EXCEPT
                        !.timers = RemoveAt(@, i),
                        !.loops = {l \in @ : ~(l.pc = "delay" /\ l.req.seq = seq)},
                        !.delayPassed = IF seq = lastSettled.seq THEN TRUE ELSE @]
           IN Assign(LoopHead(s1))

\* PubChemIntegration.clearCache()
ClearCache ==
    Assign([St EXCEPT
                 !.cache = EmptyMap,
                 !.returned = {},
                 !.calls = [c \in DOMAIN calls |->
                              IF calls[c].enr = "running"
                              THEN [calls[c] EXCEPT !.cleared = TRUE]
                              ELSE calls[c]]])

\* batchFetchCompoundInfo(compounds) is called.
BatchFetchCompoundInfo ==
    /\ batch.pc = "idle"
    /\ IF Len(batch.compounds) = 0
       THEN Assign([St EXCEPT !.batch.pc = "done"])
       ELSE Assign(Resume(StartChunk(St)))

\* The delay between two chunks is over: the next turn of the for loop.
ChunkDelayFire ==
    \E i \in 1..Len(timers) :
        /\ timers[i].kind = "chunkDelay"
        /\ CanFire(i)
        /\ Assign(Resume(StartChunk([St EXCEPT
                                       !.timers = RemoveAt(@, i),
                                       !.batch.i = @ + batchSize])))

\* mapToGeneLocusID after the delay of #simulateMapping (timer i): it caches
\* and returns the gene locus id, and the worker goes on.
AfterMappingDelay(s, i) ==
    LET w == s.timers[i].owner
        name == s.proc.workers[w].name
        geneLocusId == SimulateMapping(name)
    IN WorkerAfterMapping(
           [s EXCEPT !.timers = RemoveAt(@, i),
                     !.mappingCache = MapSet(@, name, geneLocusId)],
           w, geneLocusId)

\* addMetaboliteToPathway after the delay of #simulatePathwayLookup (timer
\* i): it adds the pathway connections, if any; the worker finishes.
AfterPathwayDelay(s, i) ==
    LET w == s.timers[i].owner
        name == s.proc.workers[w].name
        s1 == [s EXCEPT !.timers = RemoveAt(@, i),
                        !.proc.workers[w].pc = "done"]
    IN IF name \in DOMAIN pathways
       THEN [s1 EXCEPT !.cy.elements = AddPathwayConnections(@, pathways[name])]
       ELSE s1

\* processMetabolites after its delay between two batches (timer i)
AfterBatchDelay(s, i) ==
    StartBatch([s EXCEPT !.timers = RemoveAt(@, i),
                         !.proc.i = @ + metaboliteBatchSize])

\* processMetabolites(metabolites) is called: the table is emptied and the
\* first batch starts.
ProcessMetabolites ==
    /\ proc.pc = "idle"
    /\ Assign(Resume(StartBatch([St EXCEPT !.rows = << >>])))

\* The delay of #simulateMapping is over: mapToGeneLocusID caches and returns
\* the gene locus id, and the worker goes on.
MappingFire ==
    \E i \in 1..Len(timers) :
        /\ timers[i].kind = "mapping"
        /\ CanFire(i)
        /\ Assign(Resume(AfterMappingDelay(St, i)))

\* The delay of #simulatePathwayLookup is over: addMetaboliteToPathway adds
\* the pathway connections, if any, and returns; the worker finishes.
PathwayFire ==
    \E i \in 1..Len(timers) :
        /\ timers[i].kind = "pathway"
        /\ CanFire(i)
        /\ Assign(Resume(AfterPathwayDelay(St, i)))

\* The delay between two batches is over: the next turn of the for loop.
BatchDelayFire ==
    \E i \in 1..Len(timers) :
        /\ timers[i].kind = "batchDelay"
        /\ CanFire(i)
        /\ Assign(Resume(AfterBatchDelay(St, i)))

\* processMetabolites(metabolites) is called again while the invocation
\* before it is suspended at a lookup or at its delay between batches: the
\* table is emptied and the first batch of the new invocation starts.
ProcessMetabolitesAgain(metabolites) ==
    /\ proc.pc \in { "batch", "delay" }
    /\ proc.earlier = << >>
    /\ LET called == [IdleProc EXCEPT !.metabolites = metabolites]
           s1 == OtherInvocation([St EXCEPT !.proc.earlier = << called >>])
       IN Assign(Resume(StartBatch([s1 EXCEPT !.rows = << >>])))

\* A delay that the earlier invocation of processMetabolites awaits is over:
\* of #simulateMapping or #simulatePathwayLookup for one of its workers, or
\* its delay between two batches.
EarlierTimerFire ==
    \E i \in 1..Len(timers) :
        /\ timers[i].kind \in { "earlierMapping", "earlierPathway", "earlierBatchDelay" }
        /\ CanFire(i)
        /\ LET s1 == OtherInvocation(St)
               s2 == CASE timers[i].kind = "earlierMapping" -> AfterMappingDelay(s1, i)
                       [] timers[i].kind = "earlierPathway" -> AfterPathwayDelay(s1, i)
                       [] OTHER -> AfterBatchDelay(s1, i)
           IN Assign(Resume(OtherInvocation(s2)))

\* The files that get as far as processMetabolites
OkFiles == { file \in DOMAIN Files : FileOk(Files[file]) }

\* The user chooses the file of that name: the change event of fileInput.
HandleFileUpload(file) ==
    /\ Len(uploads) < MaxUploads
    /\ (\E u \in 1..Len(uploads) :
            \/ uploads[u].pc = "processing"
            \/ uploads[u].pc = "parsing" /\ uploads[u].file \in OkFiles)
       => file \notin OkFiles
    /\ Assign(StartUpload(St, file))

\* Papa.parse calls `complete` or `error` for the file of an upload.
ParseComplete ==
    \E u \in 1..Len(uploads) :
        /\ uploads[u].pc = "parsing"
        /\ Assign(Resume(AfterParse(St, u)))

\* The metabolite names and gene locus ids of the calls from outside: two
\* metabolites of one pathway that share a reaction, one of another pathway,
\* and one the pathway table does not know
GraphNames == { "Malate", "Fumarate", "Glucose", "Caffeine" }
GeneIds == { "MDH1", "FUM1" }

\* NetworkVisualizer.initialize('pathwayVisualization'), where it succeeds
Initialize ==
    /\ ~cy.initialized
    /\ Assign([St EXCEPT !.cy = [initialized |-> TRUE, elements |-> << >>]])

\* NetworkVisualizer.addMetaboliteToPathway(metaboliteName, geneLocusId)
AddMetaboliteToPathway(metaboliteName, geneLocusId) ==
    /\ Len(direct) < MaxDirect
    /\ Assign(AddMetaboliteToPathwayStart(St, metaboliteName, geneLocusId))

\* The delay of #simulatePathwayLookup is over for a call from outside
DirectPathwayFire ==
    \E i \in 1..Len(timers) :
        /\ timers[i].kind = "directPathway"
        /\ CanFire(i)
        /\ Assign(AddMetaboliteToPathwayEnd(
               [St EXCEPT !.timers = RemoveAt(@, i)], timers[i].owner))

\* The names asked of MetaboliteMapper from outside: a key of its tables, the
\* key in another case, a name of no table, and a name every object knows
MapperNames == { "Glucose", "glucose", "Caffeine", "toString" }

\* MetaboliteMapper.mapToGeneLocusID(metaboliteName)
MapToGeneLocusID(metaboliteName) ==
    /\ Len(direct) < MaxDirect
    /\ Assign(MapToGeneLocusIDStart(St, metaboliteName))

\* The delay of #simulateMapping is over for a call from outside
DirectMappingFire ==
    \E i \in 1..Len(timers) :
        /\ timers[i].kind = "directMapping"
        /\ CanFire(i)
        /\ Assign(MapToGeneLocusIDEnd([St EXCEPT !.timers = RemoveAt(@, i)],
                                      timers[i].owner))

\* MetaboliteMapper.getPathwayInformation(metaboliteName)
GetPathwayInformation(metaboliteName) ==
    /\ Len(direct) < MaxDirect
    /\ Assign(GetPathwayInformationStart(St, metaboliteName))

\* The delay of #simulatePathwayLookup is over for a call from outside
DirectLookupFire ==
    \E i \in 1..Len(timers) :
        /\ timers[i].kind = "directLookup"
        /\ CanFire(i)
        /\ Assign(GetPathwayInformationEnd([St EXCEPT !.timers = RemoveAt(@, i)],
                                           timers[i].owner))

\* MetaboliteMapper.clearCache()
MapperClearCache ==
    Assign([St EXCEPT !.mappingCache = EmptyMap])

\* FileHandler.validateData(data) is called from outside and returns or throws
CallValidateData ==
    /\ probe.fn = "validateData"
    /\ probe.pc = "called"
    /\ Assign([St EXCEPT !.probe.out = ValidateData(probe.arg),
                         !.probe.pc = "returned"])

\* ChromatogramAnalyzer.extractMetabolites is called with the rows that
\* validateData returned for the data, as processData does
CallExtractMetabolites ==
    /\ probe.fn = "extractMetabolites"
    /\ probe.pc = "called"
    /\ \E validated \in { ValidateData(probe.arg) } :
          /\ validated.ok
          /\ Assign([St EXCEPT
                       !.probe.out = [ data |-> validated.value,
                                       metabolites |-> ExtractMetabolites(validated.value) ],
                       !.probe.pc = "returned"])

\* ChromatogramAnalyzer.findPeaks is called from outside
CallFindPeaks ==
    /\ probe.fn = "findPeaks"
    /\ probe.pc = "called"
    /\ Assign([St EXCEPT
                 !.probe.out = FindPeaks(probe.arg.intensities, probe.arg.threshold),
                 !.probe.pc = "returned"])

\* ChromatogramAnalyzer.calculateArea is called from outside
CallCalculateArea ==
    /\ probe.fn = "calculateArea"
    /\ probe.pc = "called"
    /\ Assign([St EXCEPT
                 !.probe.out = CalculateArea(probe.arg.times, probe.arg.intensities),
                 !.probe.pc = "returned"])

\* ChromatogramAnalyzer.extractChromatogramData is called from outside with
\* the rows, and with the same rows in the other order
CallExtractChromatogramData ==
    /\ probe.fn = "extractChromatogramData"
    /\ probe.pc = "called"
    /\ Assign([St EXCEPT
                 !.probe.out =
                     [ first |-> ExtractChromatogramData(probe.arg.data),
                       second |-> ExtractChromatogramData(
                                      Reordered(probe.arg.data, probe.arg.order)) ],
                 !.probe.pc = "returned"])

----------------------------------------------------------------------------
(* Specification: any callers of fetchCompoundInfo and clearCache *)

Init ==
    /\ cache = EmptyMap
    /\ requestQueue = << >>
    /\ isProcessingQueue = FALSE
    /\ loops = {}
    /\ timers = << >>
    /\ calls = << >>
    /\ events = {}
    /\ pushed = 0
    /\ dispatched = << >>
    /\ lastSettled = NoReq
    /\ delayPassed = TRUE
    /\ returned = {}
    /\ batch = IdleBatch
    /\ mappingCache = EmptyMap
    /\ proc = IdleProc
    /\ rows = << >>
    /\ cy = NoGraph
    /\ NoFileHandling

Next ==
    \/ \E name \in Names : FetchCompoundInfo(name)
    \/ FetchSettle(Free)
    \/ SearchJson
    \/ EnrichJson
    \/ DelayFire(Free)
    \/ ClearCache

Spec == Init /\ [][Next]_vars

\* The same callers where every fetch settles and every timer of the request
\* delay fires: the browser settles the promise of fetch and runs the
\* callback of setTimeout when its delay is over.
SpecFair ==
    /\ Spec
    /\ WF_vars(FetchSettle(Free))
    /\ WF_vars(DelayFire(Free))

----------------------------------------------------------------------------
(* Specification: one batchFetchCompoundInfo of a list of up to MaxCompounds *)
(* names, on a network that is limited                                      *)

InitBatch ==
    /\ cache = EmptyMap
    /\ requestQueue = << >>
    /\ isProcessingQueue = FALSE
    /\ loops = {}
    /\ timers = << >>
    /\ calls = << >>
    /\ events = {}
    /\ pushed = 0
    /\ dispatched = << >>
    /\ lastSettled = NoReq
    /\ delayPassed = TRUE
    /\ returned = {}
    /\ \E n \in 0..MaxCompounds :
          batch = [IdleBatch EXCEPT !.compounds = CompoundList(n)]
    /\ mappingCache = EmptyMap
    /\ proc = IdleProc
    /\ rows = << >>
    /\ cy = NoGraph
    /\ NoFileHandling

NextBatch ==
    \/ BatchFetchCompoundInfo
    \/ ChunkDelayFire
    \/ FetchSettle(Limited)
    \/ SearchJson
    \/ EnrichJson
    \/ DelayFire(Limited)
    \/ ClearCache

SpecBatch == InitBatch /\ [][NextBatch]_vars

----------------------------------------------------------------------------
(* Specification: one batchFetchCompoundInfo of a list of up to MaxLongBatch *)
(* names, all different as far as the names go, on a limited network        *)

LongList(n) == [i \in 1..n |-> AllNames[((i - 1) % Len(AllNames)) + 1]]

InitLongBatch ==
    /\ cache = EmptyMap
    /\ requestQueue = << >>
    /\ isProcessingQueue = FALSE
    /\ loops = {}
    /\ timers = << >>
    /\ calls = << >>
    /\ events = {}
    /\ pushed = 0
    /\ dispatched = << >>
    /\ lastSettled = NoReq
    /\ delayPassed = TRUE
    /\ returned = {}
    /\ \E n \in 1..MaxLongBatch :
          batch = [IdleBatch EXCEPT !.compounds = LongList(n)]
    /\ mappingCache = EmptyMap
    /\ proc = IdleProc
    /\ rows = << >>
    /\ cy = NoGraph
    /\ NoFileHandling

NextLongBatch ==
    \/ BatchFetchCompoundInfo
    \/ ChunkDelayFire
    \/ FetchSettle(Limited)
    \/ SearchJson
    \/ EnrichJson
    \/ DelayFire(Limited)

SpecLongBatch == InitLongBatch /\ [][NextLongBatch]_vars

----------------------------------------------------------------------------
(* Specification: one processMetabolites of a list of up to MaxMetabolites  *)
(* metabolites on a freshly loaded page, on a network that is limited; the  *)
(* pathway view was initialized by updateVisualizations, or could not be    *)

InitProc ==
    /\ cache = EmptyMap
    /\ requestQueue = << >>
    /\ isProcessingQueue = FALSE
    /\ loops = {}
    /\ timers = << >>
    /\ calls = << >>
    /\ events = {}
    /\ pushed = 0
    /\ dispatched = << >>
    /\ lastSettled = NoReq
    /\ delayPassed = TRUE
    /\ returned = {}
    /\ batch = IdleBatch
    /\ mappingCache = EmptyMap
    /\ \E n \in 1..MaxMetabolites :
          proc = [IdleProc EXCEPT !.metabolites = MetaboliteList(n)]
    /\ rows = << >>
    /\ \E b \in BOOLEAN : cy = [NoGraph EXCEPT !.initialized = b]
    /\ NoFileHandling

NextProc ==
    \/ ProcessMetabolites
    \/ MappingFire
    \/ PathwayFire
    \/ BatchDelayFire
    \/ FetchSettle(Limited)
    \/ SearchJson
    \/ EnrichJson
    \/ DelayFire(Limited)

SpecProc == InitProc /\ [][NextProc]_vars

----------------------------------------------------------------------------
(* Specification: processMetabolites called for the metabolites of one file *)
(* and called again, for those of a second file, before it has returned     *)

\* The metabolites of the second file: one that the first file has in its
\* second batch, or one it has in its first batch and one it has not
LaterLists ==
    { << AllNames[MaxMetabolites] >>, << AllNames[1], "Toluene" >> }

NextOverlap ==
    \/ ProcessMetabolites
    \/ \E metabolites \in LaterLists : ProcessMetabolitesAgain(metabolites)
    \/ MappingFire
    \/ PathwayFire
    \/ BatchDelayFire
    \/ EarlierTimerFire
    \/ FetchSettle(Reliable)
    \/ SearchJson
    \/ EnrichJson
    \/ DelayFire(Reliable)

SpecOverlap == InitProc /\ [][NextOverlap]_vars

----------------------------------------------------------------------------
(* Specification: up to MaxUploads files chosen on a freshly loaded page,   *)
(* on a network that answers every request. A file that can be processed   *)
(* is chosen when no other such file is being parsed or processed; a file   *)
(* that fails is chosen at any time.                                        *)

\* The state of the lookups on a freshly loaded page
FreshLookups ==
    /\ cache = EmptyMap
    /\ requestQueue = << >>
    /\ isProcessingQueue = FALSE
    /\ loops = {}
    /\ timers = << >>
    /\ calls = << >>
    /\ events = {}
    /\ pushed = 0
    /\ dispatched = << >>
    /\ lastSettled = NoReq
    /\ delayPassed = TRUE
    /\ returned = {}
    /\ batch = IdleBatch
    /\ mappingCache = EmptyMap
    /\ proc = IdleProc
    /\ rows = << >>
    /\ cy = NoGraph

InitUpload == FreshLookups /\ NoFileHandling

NextUpload ==
    \/ \E file \in DOMAIN Files : HandleFileUpload(file)
    \/ ParseComplete
    \/ MappingFire
    \/ PathwayFire
    \/ FetchSettle(Reliable)
    \/ SearchJson
    \/ EnrichJson
    \/ DelayFire(Reliable)

SpecUpload == InitUpload /\ [][NextUpload]_vars

----------------------------------------------------------------------------
(* Specification: up to MaxDirect calls of addMetaboliteToPathway from      *)
(* outside, before and after the pathway view is initialized                *)

\* NetworkVisualizer.clear(): cy.elements().remove(), once there is a cy
Clear ==
    /\ cy.initialized
    /\ Assign([St EXCEPT !.cy.elements = << >>])

InitGraph == FreshLookups /\ NoFileHandling

NextGraph ==
    \/ Initialize
    \/ \E metaboliteName \in GraphNames, geneLocusId \in GeneIds :
          AddMetaboliteToPathway(metaboliteName, geneLocusId)
    \/ DirectPathwayFire

SpecGraph == InitGraph /\ [][NextGraph]_vars

\* The same calls, and clear() at any time between them and their awaits
NextGraphClear ==
    \/ NextGraph
    \/ Clear

SpecGraphClear == InitGraph /\ [][NextGraphClear]_vars

----------------------------------------------------------------------------
(* Specification: up to MaxDirect calls of mapToGeneLocusID and             *)
(* getPathwayInformation from outside, with clearCache at any time          *)

InitMapper == FreshLookups /\ NoFileHandling

NextMapper ==
    \/ \E metaboliteName \in MapperNames : MapToGeneLocusID(metaboliteName)
    \/ \E metaboliteName \in MapperNames : GetPathwayInformation(metaboliteName)
    \/ DirectMappingFire
    \/ DirectLookupFire
    \/ MapperClearCache

SpecMapper == InitMapper /\ [][NextMapper]_vars

----------------------------------------------------------------------------
(* Specification: one call of validateData from outside, with data of up to *)
(* MaxRows rows                                                             *)

InitValidate ==
    /\ FreshLookups
    /\ uploads = << >>
    /\ uploadStatus = NoStatus
    /\ charts = NoCharts
    /\ direct = << >>
    /\ \E data \in SampleData :
          probe = [fn |-> "validateData", arg |-> data, out |-> << >>,
                   pc |-> "called"]

NextValidate == CallValidateData

SpecValidate == InitValidate /\ [][NextValidate]_vars

----------------------------------------------------------------------------
(* Specification: extractChromatogramData called from outside with up to    *)
(* MaxPoints validated rows, in two orders                                  *)

InitChromatogram ==
    /\ FreshLookups
    /\ uploads = << >>
    /\ uploadStatus = NoStatus
    /\ charts = NoCharts
    /\ direct = << >>
    /\ \E arg \in SampleSeries :
          probe = [fn |-> "extractChromatogramData", arg |-> arg, out |-> << >>,
                   pc |-> "called"]

NextChromatogram == CallExtractChromatogramData

SpecChromatogram == InitChromatogram /\ [][NextChromatogram]_vars

----------------------------------------------------------------------------
(* Specification: extractMetabolites called with the validated rows of a    *)
(* file of up to MaxNamed rows                                              *)

InitMetabolites ==
    /\ FreshLookups
    /\ uploads = << >>
    /\ uploadStatus = NoStatus
    /\ charts = NoCharts
    /\ direct = << >>
    /\ \E data \in NamedData :
          probe = [fn |-> "extractMetabolites", arg |-> data, out |-> << >>,
                   pc |-> "called"]

NextMetabolites == CallExtractMetabolites

SpecMetabolites == InitMetabolites /\ [][NextMetabolites]_vars

----------------------------------------------------------------------------
(* Specification: findPeaks and calculateArea called with sample arrays     *)

InitSignal ==
    /\ FreshLookups
    /\ uploads = << >>
    /\ uploadStatus = NoStatus
    /\ charts = NoCharts
    /\ direct = << >>
    /\ \/ \E intensities \in SampleIntensityArrays, threshold \in SampleThresholds :
             probe = [fn |-> "findPeaks",
                      arg |-> [intensities |-> intensities, threshold |-> threshold],
                      out |-> << >>, pc |-> "called"]
       \/ \E curve \in SampleCurves :
             probe = [fn |-> "calculateArea", arg |-> curve, out |-> << >>,
                      pc |-> "called"]

NextSignal ==
    \/ CallFindPeaks
    \/ CallCalculateArea

SpecSignal == InitSignal /\ [][NextSignal]_vars

----------------------------------------------------------------------------
(* Properties of the request queue and the compound lookup *)

\* The requests whose fetch has started and not settled
InFlight == { l \in loops : l.pc = "fetch" }

CallIds == 1..Len(calls)

\* C1: at every moment at most one request of the queue is in flight,
\* however many callers have enqueued requests.
C1_AtMostOneInFlight == Cardinality(InFlight) <= 1

\* Two callers wait for the queue while a request is in flight.
C1_Witness ==
    /\ Cardinality(InFlight) = 1
    /\ Len(requestQueue) >= 1
    /\ \E c, d \in CallIds : c # d /\ calls[c].pc = "search" /\ calls[d].pc = "search"

\* C2 (as claimed): a fetchCompoundInfo whose identifier-resolution request
\* failed (network failure or non-success status) returns a result of id
\* "Error", not "Not found".
C2_FailedSearchYieldsError ==
    \A c \in CallIds :
        (calls[c].pc = "done" /\ calls[c].outcome = "failed")
            => calls[c].result.id = "Error"

\* C3: once fetchCompoundInfo(name) has returned, a later
\* fetchCompoundInfo(name) with no clearCache in between returns the cached
\* entry of the name and pushes no request.
C3_RepeatServedFromCache ==
    [][ \A n \in Names :
          ( /\ n \in returned
            /\ Len(calls') = Len(calls) + 1
            /\ calls'[Len(calls')].name = n )
          => /\ n \in DOMAIN cache
             /\ calls'[Len(calls')].pc = "done"
             /\ calls'[Len(calls')].result = cache[n]
             /\ pushed' = pushed
             /\ requestQueue' = requestQueue ]_vars

\* A call was served from the cache with a not-found entry.
C3_Witness ==
    \E c \in CallIds :
        /\ calls[c].via = "cache"
        /\ calls[c].result.id = "Not found"
        /\ \E d \in 1..(c - 1) : calls[d].name = calls[c].name /\ calls[d].via = "search"

\* C4: when the search finds no identifier, fetchCompoundInfo returns
\* {id: "Not found", name}, stores it in the cache under the name and pushes
\* no enrichment request.
C4_NotFoundCachedNoEnrichment ==
    [][ \A c \in CallIds :
          ( /\ calls[c].pc # "done"
            /\ calls'[c].pc = "done"
            /\ calls'[c].cid = null )
          => /\ calls'[c].result = [id |-> "Not found", name |-> calls[c].name]
             /\ calls[c].name \in DOMAIN cache'
             /\ cache'[calls[c].name] = calls'[c].result
             /\ pushed' = pushed
             /\ calls'[c].enr = "none" ]_vars

\* A lookup ended not found and nothing of it is queued or in flight.
C4_Witness ==
    \E c \in CallIds :
        /\ calls[c].pc = "done" /\ calls[c].via = "search"
        /\ calls[c].result.id = "Not found"
        /\ calls[c].name \in DOMAIN cache
        /\ requestQueue = << >> /\ InFlight = {}

EventsFor(n) == { e \in events : e.compoundName = n }

\* c is the only call that resolved an identifier for its name
SoleLookup(c) ==
    \A d \in CallIds \ {c} :
        ~(calls[d].name = calls[c].name /\ calls[d].cid # null)

C5_State ==
    \A c \in CallIds :
        /\ (calls[c].pc = "done" /\ calls[c].via = "search" /\ calls[c].cid # null)
              => calls[c].result =
                   [id |-> calls[c].cid, name |-> calls[c].name,
                    url |-> << "https://pubchem.ncbi.nlm.nih.gov/compound/",
                               calls[c].cid >>]
        /\ calls[c].pc # "done" => calls[c].enr = "none"
        /\ calls[c].emitted <= 1
        /\ (calls[c].enr = "done" /\ ~calls[c].cleared)
              => /\ calls[c].emitted = 1
                 /\ SoleLookup(c) => Cardinality(EventsFor(calls[c].name)) = 1

C5_Step ==
    \A c \in CallIds :
        /\ (calls[c].pc # "done" /\ calls'[c].pc = "done" /\ calls'[c].cid # null)
              => /\ calls'[c].enr = "running"
                 /\ calls'[c].props = "wait" /\ calls'[c].smiles = "wait"
                 /\ calls'[c].emitted = 0
        /\ (calls[c].enr = "running" /\ calls'[c].enr = "done" /\ ~calls'[c].cleared)
              => LET n == calls[c].name IN
                 /\ n \in DOMAIN cache /\ n \in DOMAIN cache'
                 /\ DOMAIN cache'[n] = DOMAIN cache[n] \cup {"properties", "smiles"}
                 /\ \A k \in DOMAIN cache[n] \ {"properties", "smiles"} :
                        cache'[n][k] = cache[n][k]
                 /\ cache'[n].properties = calls'[c].propsVal
                 /\ cache'[n].smiles = calls'[c].smilesVal
                 /\ \E e \in events' \ events :
                        /\ events' = events \cup {e}
                        /\ e.compoundName = n
                        /\ e.by = c
                        /\ e.data = cache'[n]

\* C5: for a name whose identifier resolves, fetchCompoundInfo returns the
\* minimal result (id, name, url) when no enrichment request has completed;
\* afterwards, if the enrichment requests settle and the cache is not
\* cleared, the cached entry gains properties and smiles and the enrichment
\* dispatches exactly one 'pubchem-data-updated' event naming the compound,
\* carrying the merged entry that is then in the cache.
C5_MinimalThenEnriched == [](C5_State) /\ [][C5_Step]_vars

\* An enrichment has merged both parts into the cache and notified once.
C5_Witness ==
    \E c \in CallIds :
        /\ calls[c].enr = "done" /\ ~calls[c].cleared
        /\ calls[c].emitted = 1
        /\ calls[c].name \in DOMAIN cache
        /\ "properties" \in DOMAIN cache[calls[c].name]
        /\ cache[calls[c].name].smiles = "smiles"
        /\ "properties" \notin DOMAIN calls[c].result

\* C6 (as claimed): once the cache entry of a name has an id, every later
\* state of the entry, until clearCache, has the same id and the same name.
C6_IdAndNameStable ==
    [][ \A n \in DOMAIN cache :
          n \in DOMAIN cache'
            => /\ cache'[n].id = cache[n].id
               /\ cache'[n].name = cache[n].name ]_vars

\* C7: requests are dispatched in the order they were pushed, and a request
\* is dispatched only when every request dispatched before it has settled.
C7_DispatchInPushOrder ==
    /\ \A i \in DOMAIN dispatched : dispatched[i] = i
    /\ \A l \in InFlight : l.req.seq = dispatched[Len(dispatched)]
    /\ \A i \in DOMAIN requestQueue : requestQueue[i].seq > Len(dispatched)

\* Two requests wait behind a third, and requests were dispatched before.
C7_Witness ==
    /\ Len(requestQueue) >= 2
    /\ Len(dispatched) >= 2
    /\ InFlight # {}

\* C8: whenever a request is in flight, the delay armed after the request
\* that settled before it has run out; also for a request pushed onto the
\* empty queue during that delay.
C8_DelayBetweenDispatches == InFlight # {} => delayPassed

\* A request pushed onto the empty queue during the delay is in flight.
C8_Witness ==
    \E l \in InFlight : l.req.late /\ lastSettled.seq > 0 /\ delayPassed

\* The calls of the batch
BatchCalls == { c \in CallIds : calls[c].item > 0 }

\* The chunk of the list a call of the batch belongs to
ChunkOf(c) == (calls[c].item - 1) \div batchSize

\* C9: batchFetchCompoundInfo takes the names in consecutive chunks of 5:
\* when a call for a name of a later chunk has started, every call of the
\* chunks before has returned; so at most 5 calls of the batch are unsettled.
C9_ChunkBarrier ==
    /\ \A c, d \in BatchCalls :
          ChunkOf(c) < ChunkOf(d) => calls[c].pc = "done"
    /\ Cardinality({ c \in BatchCalls : calls[c].pc # "done" }) <= 5
    /\ \A c \in BatchCalls :
          /\ calls[c].name = batch.compounds[calls[c].item]
          /\ \A d \in BatchCalls : c < d => calls[c].item < calls[d].item
    /\ batch.pc = "done" =>
          /\ { calls[c].item : c \in BatchCalls } = 1..Len(batch.compounds)
          /\ DOMAIN batch.results = { batch.compounds[k] : k \in 1..Len(batch.compounds) }

\* The second chunk is running after a first chunk of five calls.
C9_Witness ==
    /\ batch.pc = "chunk"
    /\ batch.i = 5
    /\ \E d \in BatchCalls : ChunkOf(d) = 1 /\ calls[d].pc # "done"
    /\ Cardinality({ c \in BatchCalls : ChunkOf(c) = 0 }) = 5

\* The batch of the list a worker belongs to
BatchOf(w) == (w - 1) \div metaboliteBatchSize

WorkerIds == 1..Len(proc.workers)

\* The lookups of worker w have settled: its gene-locus mapping, its
\* compound lookup and its pathway lookup
LookupsSettled(w) ==
    /\ proc.workers[w].pc = "done"
    /\ proc.workers[w].call > 0
    /\ calls[proc.workers[w].call].pc = "done"
    /\ \A i \in 1..Len(timers) :
          timers[i].kind \in {"mapping", "pathway"} => timers[i].owner # w

\* C10: in processMetabolites no metabolite of batch N+1 begins its lookups
\* before the gene-locus mapping, the compound lookup and the pathway lookup
\* of every metabolite of batch N have settled.
C10_BatchBarrier ==
    \A v, w \in WorkerIds : BatchOf(v) < BatchOf(w) => LookupsSettled(v)

\* The second batch has begun its lookups after a first batch of five whose
\* lookups have settled, one of them with a pathway; the requests that
\* fetchAdditionalData started in the background for the first batch are not
\* lookups the batch awaits, and some are still under way.
C10_Witness ==
    /\ Len(proc.workers) > 5
    /\ proc.workers[6].pc = "compound"
    /\ \A v \in 1..5 : LookupsSettled(v)
    /\ \E v \in 1..5 : HasNode(cy.elements, "p_Glycolysis")
    /\ \E v \in 1..5 : calls[proc.workers[v].call].enr = "running"

----------------------------------------------------------------------------
(* Properties of a fetch that never settles *)

\* The entries (compound names) with a request waiting in the queue. While a
\* fetch is in flight, #processQueue is suspended at `await fetch(url)` and
\* #isProcessingQueue is set, so nothing takes a request from the queue
\* before that fetch settles: if the fetch hangs, these entries wait for ever.
EntriesWaiting == { calls[requestQueue[k].call].name : k \in 1..Len(requestQueue) }

\* C11: a fetch that never settles stalls only the enrichment of the entry
\* that issued it and blocks no unrelated entry: whenever a fetch is in
\* flight, the requests that wait for it to settle are requests of the same
\* entry.
C11_HungCallStallsOnlyItsEntry ==
    \A l \in InFlight : EntriesWaiting \subseteq { calls[l.req.call].name }

----------------------------------------------------------------------------
(* Properties of a failing lookup in processMetabolites *)

\* The workers whose compound lookup failed (HTTP error or network error)
FailedWorkers ==
    { w \in WorkerIds : /\ proc.workers[w].call > 0
                        /\ calls[proc.workers[w].call].outcome = "failed" }

\* Some task of processMetabolites or of the lookups it started can run: a
\* fetch can settle, a body can be read, or a timer can fire (the guards of
\* the actions of NextProc).
ProcCanStep ==
    \/ \E l \in loops : l.pc = "fetch"
    \/ \E c \in CallIds : \/ calls[c].pc = "json"
                          \/ calls[c].props = "json"
                          \/ calls[c].smiles = "json"
    \/ \E i \in 1..Len(timers) :
          /\ CanFire(i)
          /\ timers[i].kind = "requestDelay" => BodiesInReading = 0

\* C12: a failure while enriching one metabolite does not abort the batch.
\* A worker that is past its compound lookup has filled the gene-locus and
\* the compound cell of its row, with a sentinel where the lookup failed;
\* processMetabolites is never left with nothing to wait for before it has
\* finished; and when it has finished, every metabolite of every batch has
\* its row, and no row is in the loading state.
C12_FailureIsolated ==
    /\ \A w \in WorkerIds :
          proc.workers[w].pc \in {"pathway", "done"} =>
             /\ rows[w].name = proc.workers[w].name
             /\ rows[w].geneLocusId = proc.workers[w].geneLocusId
             /\ rows[w].geneLocusId # "loading"
             /\ rows[w].pubchemId # "loading"
             /\ w \in FailedWorkers => rows[w].pubchemId \in {"Not found", "Error"}
    /\ proc.pc \in {"batch", "delay"} => ProcCanStep
    /\ proc.pc = "done" =>
          /\ Len(rows) = Len(proc.metabolites)
          /\ Len(proc.workers) = Len(proc.metabolites)
          /\ \A k \in 1..Len(rows) :
                /\ rows[k].name = proc.metabolites[k]
                /\ proc.workers[k].pc = "done"
                /\ rows[k].geneLocusId # "loading"
                /\ rows[k].pubchemId # "loading"

\* Two batches have been processed to the end although a compound lookup of
\* the first batch failed.
C12_Witness ==
    /\ proc.pc = "done"
    /\ Len(rows) > metaboliteBatchSize
    /\ \E w \in FailedWorkers :
          /\ BatchOf(w) = 0
          /\ rows[w].pubchemId = "Not found"
          /\ \E v \in WorkerIds : v # w /\ BatchOf(v) = 0
                                    /\ rows[v].pubchemId \notin {"Not found", "loading"}

----------------------------------------------------------------------------
(* Properties of handleFileUpload *)

\* A step of the upload u: the upload starts, or goes on after its await
UploadSteps(u) == u > Len(uploads) \/ uploads[u].pc # uploads'[u].pc

\* C13: if parsing or validation of an uploaded file fails, handleFileUpload
\* aborts the upload: the upload never reaches processMetabolites, its steps
\* start no lookup and leave the results table, the charts and the pathway
\* graph as they are, and when it has failed an error status is shown. (An
\* upload of a file that does not fail never ends as failed.)
C13_FailedUploadAborts ==
    [][ \A u \in 1..Len(uploads') :
          UploadSteps(u) =>
             IF uploads'[u].file \in OkFiles
             THEN uploads'[u].pc # "failed"
             ELSE /\ UNCHANGED << rows, cy, charts, proc, calls, requestQueue,
                                  loops, timers, cache, mappingCache, events >>
                  /\ uploads'[u].pc \in {"parsing", "failed"}
                  /\ uploads'[u].pc = "failed" => uploadStatus'.type = "error"
      ]_vars

\* A file has failed in parsing while the table and the graph hold what an
\* earlier upload put there, and the error is shown.
C13_Witness ==
    /\ Len(uploads) = 2
    /\ uploads[1].pc \in {"processing", "done"}
    /\ uploads[2].pc = "failed"
    /\ ValidateFileType(Files[uploads[2].file])
    /\ Len(rows) = 2
    /\ cy.elements # << >>
    /\ uploadStatus.type = "error"

----------------------------------------------------------------------------
(* Properties of the pathway graph *)

\* The places of the elements of that id
WithId(id) == { k \in 1..Len(cy.elements) : cy.elements[k].id = id }

\* The places of the edges from one node to another
EdgesBetween(source, target) ==
    { k \in 1..Len(cy.elements) :
        /\ cy.elements[k].group = "edges"
        /\ cy.elements[k].source = source
        /\ cy.elements[k].target = target }

\* The calls of addMetaboliteToPathway from outside that got past the check
\* of the view
AddsDone == { d \in 1..Len(direct) :
                direct[d].fn = "addMetaboliteToPathway"
                /\ direct[d].result.kind # "refused" }

\* The graph has one metabolite node, one gene node and one edge between
\* them for every pair that was added, however often it was added.
C14_OneOfEach ==
    \A d \in AddsDone :
        LET m == "m_" \o direct[d].name
            g == "g_" \o direct[d].geneLocusId
        IN /\ Cardinality(WithId(m)) = 1
           /\ Cardinality(WithId(g)) = 1
           /\ \A k \in WithId(m) \cup WithId(g) : cy.elements[k].group = "nodes"
           /\ Cardinality(EdgesBetween(m, g)) = 1

\* A call for a pair that was added before adds nothing up to its await.
C14_SecondAddsNothing ==
    (/\ Len(direct') = Len(direct) + 1
     /\ direct'[Len(direct')].fn = "addMetaboliteToPathway"
     /\ \E d \in AddsDone :
           /\ direct[d].name = direct'[Len(direct')].name
           /\ direct[d].geneLocusId = direct'[Len(direct')].geneLocusId)
    => cy' = cy

\* C14: calling addMetaboliteToPathway twice with the same metabolite and
\* gene leaves exactly one metabolite node, one gene node and one edge
\* between them; the second call adds no node and no edge.
C14_AddIsIdempotent == [](C14_OneOfEach) /\ [][C14_SecondAddsNothing]_vars

\* The same pair was added twice, after another pair, and both calls of the
\* pair have returned.
C14_Witness ==
    /\ Len(direct) = 3
    /\ AddsDone = {1, 2, 3}
    /\ direct[1].name # direct[2].name
    /\ direct[2].name = direct[3].name
    /\ direct[2].geneLocusId = direct[3].geneLocusId
    /\ \A d \in 1..3 : direct[d].pc = "done"

\* The metabolites for which addPathwayConnections has run
Connected == { direct[d].name : d \in { x \in AddsDone :
                   direct[x].pc = "done" /\ direct[x].name \in DOMAIN pathways } }

\* The places of the nodes of a type
NodesOfType(type) ==
    { k \in 1..Len(cy.elements) :
        cy.elements[k].group = "nodes" /\ cy.elements[k].type = type }

\* The reactions of the connected metabolites: (metabolite, index)
ReactionsOf(names) ==
    UNION { { << n, index >> : index \in 0..(Len(pathways[n].reactions) - 1) } :
            n \in names }

\* C15: after addPathwayConnections has run for a set of metabolites, the
\* graph has one pathway node per distinct pathway (shared by the metabolites
\* of the pathway), one edge from each metabolite to its pathway, and one
\* reaction node and one edge per metabolite and reaction index, also where
\* two metabolites list the same reaction text.
C15_PathwayConnections ==
    /\ Cardinality(NodesOfType("pathway"))
         = Cardinality({ pathways[n].pathway : n \in Connected })
    /\ Cardinality(NodesOfType("reaction")) = Cardinality(ReactionsOf(Connected))
    /\ \A n \in Connected :
          LET info == pathways[n] IN
          /\ Cardinality(WithId("p_" \o info.pathway)) = 1
          /\ \A k \in WithId("p_" \o info.pathway) :
                cy.elements[k].type = "pathway" /\ cy.elements[k].label = info.pathway
          /\ Cardinality(EdgesBetween("m_" \o n, "p_" \o info.pathway)) = 1
    /\ \A r \in ReactionsOf(Connected) :
          LET reactionId == "r_" \o r[1] \o "_" \o ToString(r[2]) IN
          /\ Cardinality(WithId(reactionId)) = 1
          /\ \A k \in WithId(reactionId) :
                /\ cy.elements[k].type = "reaction"
                /\ cy.elements[k].label = pathways[r[1]].reactions[r[2] + 1]
          /\ Cardinality(EdgesBetween("m_" \o r[1], reactionId)) = 1

\* Malate and Fumarate, of one pathway and with a reaction text in common,
\* have been connected, one of them twice.
C15_Witness ==
    /\ Len(direct) = 3
    /\ \A d \in 1..3 : direct[d].pc = "done" /\ direct[d].result.kind = "added"
    /\ Connected = { "Malate", "Fumarate" }
    /\ \E a, b \in NodesOfType("reaction") :
          a # b /\ cy.elements[a].label = cy.elements[b].label

----------------------------------------------------------------------------
(* Properties of MetaboliteMapper *)

\* C16: mapToGeneLocusID(name) returns the identifier of the table when name
\* is a key of the table and "Not found" otherwise, from the cache or not;
\* getPathwayInformation(name) returns the record of the table for a key of
\* the table and null otherwise.
C16_LookupsFollowTable ==
    \A d \in 1..Len(direct) :
        direct[d].pc = "done" =>
            /\ direct[d].fn = "mapToGeneLocusID" =>
                  direct[d].result.id =
                      IF direct[d].name \in DOMAIN mappings
                      THEN mappings[direct[d].name] ELSE "Not found"
            /\ direct[d].fn = "getPathwayInformation" =>
                  IF direct[d].name \in DOMAIN pathways
                  THEN /\ direct[d].result.kind = "record"
                       /\ direct[d].result.info = pathways[direct[d].name]
                  ELSE direct[d].result.kind = "null"

----------------------------------------------------------------------------
(* Properties of FileHandler.validateData *)

Validated == probe.fn = "validateData" /\ probe.pc = "returned"

\* C17: every row validateData returns has a finite retentionTime, a finite
\* intensity and a name that is not empty as stored; data with a row that is
\* not so is rejected.
C17_RowsFiniteAndNamed ==
    (Validated /\ probe.out.ok) =>
        \A i \in 1..Len(probe.out.value) :
            /\ probe.out.value[i].retentionTime.k = "fin"
            /\ probe.out.value[i].intensity.k = "fin"
            /\ probe.out.value[i].name # << >>

\* A text is the text of a number if all of it, white space at its ends
\* aside, is a decimal literal
IsNumericText(chars) ==
    /\ ~IsNaN(ScanFloat(chars).v)
    /\ \A i \in ScanFloat(chars).end..Len(chars) : IsSpace(chars[i])

IsNumeric(v) ==
    \/ v.t = "number" /\ ~IsNaN(v)
    \/ v.t = "string" /\ IsNumericText(v.chars)

\* C18: validateData rejects the data with an error that names a row whenever
\* the RetentionTime or the Intensity cell of some row is neither a number
\* nor the text of a number.
C18_NonNumericRejected ==
    (/\ Validated
     /\ \E i \in 1..Len(probe.arg.rows) :
           \/ ~IsNumeric(probe.arg.rows[i][requiredColumns[2]])
           \/ ~IsNumeric(probe.arg.rows[i][requiredColumns[3]]))
    => /\ ~probe.out.ok
       /\ probe.out.row \in 1..Len(probe.arg.rows)

----------------------------------------------------------------------------
(* Properties of ChromatogramAnalyzer.extractChromatogramData *)

Extracted == probe.fn = "extractChromatogramData" /\ probe.pc = "returned"

\* Two rows of the data have the same retention time
HasTies(data) ==
    \E i, j \in 1..Len(data) : i # j /\ data[i].retentionTime = data[j].retentionTime

\* C19 as stated: for every permutation of the same validated rows,
\* extractChromatogramData returns identical times, intensities and labels.
C19_AnyOrderSameSeries ==
    Extracted => probe.out.first = probe.out.second

\* C19, amended: for every permutation of the same validated rows the times
\* are identical, and the intensities and labels are identical when no two
\* rows have the same retention time (rows of one retention time keep the
\* order they came in).
C19_AnyOrderSameTimes ==
    Extracted =>
        /\ probe.out.first.times = probe.out.second.times
        /\ ~HasTies(probe.arg.data) => probe.out.first = probe.out.second

\* Three rows of different retention times were given in two different
\* orders that put neither first row first.
C19_Witness ==
    /\ Extracted
    /\ Len(probe.arg.data) = 3
    /\ ~HasTies(probe.arg.data)
    /\ probe.arg.order = << 3, 1, 2 >>
    /\ probe.out.first.times # [i \in 1..3 |-> probe.arg.data[i].retentionTime]
    /\ probe.out.first.labels[1] # probe.out.first.labels[2]

\* a <= b on numbers that are not NaN
AtMost(a, b) == ~IsPositive(Minus(a, b))

\* C20: extractChromatogramData returns the times in non-decreasing order,
\* rows of equal retentionTime in the order they came in, and parallel
\* arrays: times[i], intensities[i] and labels[i] are of one row of the data,
\* and every row of the data appears once.
C20_StableSortedParallel ==
    Extracted =>
        LET data == probe.arg.data
            out == probe.out.first
        IN /\ Len(out.times) = Len(data)
           /\ Len(out.intensities) = Len(data)
           /\ Len(out.labels) = Len(data)
           /\ \A i, j \in 1..Len(data) : i < j => AtMost(out.times[i], out.times[j])
           /\ \E p \in Orders(Len(data)) :
                 /\ \A i \in 1..Len(data) :
                       /\ out.times[i] = data[p[i]].retentionTime
                       /\ out.intensities[i] = data[p[i]].intensity
                       /\ out.labels[i] = data[p[i]].name
                 /\ \A i, j \in 1..Len(data) :
                       (i < j /\ out.times[i] = out.times[j]) => p[i] < p[j]

\* Three rows were given, the last of them the earliest, the first two of one
\* retention time and different names.
C20_Witness ==
    /\ Extracted
    /\ Len(probe.arg.data) = 3
    /\ probe.arg.data[1].retentionTime = probe.arg.data[2].retentionTime
    /\ probe.arg.data[1].name # probe.arg.data[2].name
    /\ probe.arg.data[3].retentionTime = Num(500)
    /\ probe.out.first.labels = << probe.arg.data[3].name, probe.arg.data[1].name,
                                   probe.arg.data[2].name >>

----------------------------------------------------------------------------
(* Properties of ChromatogramAnalyzer.extractMetabolites *)

MetabolitesExtracted == probe.fn = "extractMetabolites" /\ probe.pc = "returned"

\* The place of the first row of that name
FirstPlace(data, name) ==
    CHOOSE i \in 1..Len(data) :
        data[i].name = name /\ \A j \in 1..(i - 1) : data[j].name # name

\* C21: extractMetabolites returns one metabolite per distinct trimmed name
\* of the file, case-sensitively, in first-seen order, with the
\* retentionTime, intensity and additionalData of the first row of the name.
C21_OnePerNameFirstSeen ==
    MetabolitesExtracted =>
        LET data == probe.out.data
            found == probe.out.metabolites
            names == { Trim(probe.arg.rows[i][requiredColumns[1]].chars) :
                         i \in 1..Len(probe.arg.rows) }
        IN /\ Len(found) = Cardinality(names)
           /\ { found[k].name : k \in 1..Len(found) } = names
           /\ \A k \in 1..Len(found) :
                 /\ found[k].retentionTime = data[FirstPlace(data, found[k].name)].retentionTime
                 /\ found[k].intensity = data[FirstPlace(data, found[k].name)].intensity
                 /\ found[k].additionalData
                      = data[FirstPlace(data, found[k].name)].additionalData
                 /\ found[k].additionalData
                      = (NOTE :> probe.arg.rows[FirstPlace(data, found[k].name)][NOTE])
           /\ \A k, l \in 1..Len(found) :
                 k < l => FirstPlace(data, found[k].name) < FirstPlace(data, found[l].name)

\* Three rows: the name in lower case first, then the name twice, once with
\* spaces around it, at different retention times.
C21_Witness ==
    /\ MetabolitesExtracted
    /\ Len(probe.arg.rows) = 3
    /\ Len(probe.out.metabolites) = 2
    /\ probe.out.metabolites[2].name = GLUCOSE
    /\ probe.arg.rows[2][requiredColumns[1]].chars # probe.arg.rows[3][requiredColumns[1]].chars
    /\ probe.out.data[2].retentionTime # probe.out.data[3].retentionTime

----------------------------------------------------------------------------
(* Properties of ChromatogramAnalyzer.findPeaks and calculateArea *)

PeaksFound == probe.fn = "findPeaks" /\ probe.pc = "returned"

\* The greatest element of a non-empty array
Greatest(intensities) ==
    CHOOSE m \in { intensities[k] : k \in DOMAIN intensities } :
        \A k \in DOMAIN intensities : intensities[k] <= m

\* Index i (from 0) is a peak of the array at threshold t (in tenths)
IsPeak(intensities, t, i) ==
    /\ 1 <= i
    /\ i <= Len(intensities) - 2
    /\ 10 * intensities[i + 1] > t * Greatest(intensities)
    /\ intensities[i + 1] > intensities[i]
    /\ intensities[i + 1] > intensities[i + 2]

StrictlyMonotonic(intensities) ==
    \/ \A k \in 1..(Len(intensities) - 1) : intensities[k] < intensities[k + 1]
    \/ \A k \in 1..(Len(intensities) - 1) : intensities[k] > intensities[k + 1]

\* C22: findPeaks(intensities, t) returns, ascending, exactly the indices i
\* with 1 <= i <= n-2 whose intensity exceeds t * max(intensities) and both
\* neighbours; so an endpoint is never a peak, strictly monotonic input has
\* no peak, and [1,1,5,1,1] at the default threshold has the one peak 2.
C22_PeaksAreInteriorMaxima ==
    PeaksFound =>
        LET intensities == probe.arg.intensities
            t == probe.arg.threshold
            peaks == probe.out
        IN /\ { peaks[k] : k \in 1..Len(peaks) }
                = { i \in 0..(Len(intensities) - 1) : IsPeak(intensities, t, i) }
           /\ \A k \in 1..(Len(peaks) - 1) : peaks[k] < peaks[k + 1]
           /\ \A k \in 1..Len(peaks) :
                 peaks[k] # 0 /\ peaks[k] # Len(intensities) - 1
           /\ StrictlyMonotonic(intensities) => peaks = << >>
           /\ (intensities = << 1, 1, 5, 1, 1 >> /\ t = defaultThreshold)
                 => peaks = << 2 >>

\* Two peaks found in order, while a local maximum between them is too low
\* for the threshold.
C22_Witness ==
    /\ PeaksFound
    /\ probe.arg.intensities = << 0, 60, 0, 5, 0 >>
    /\ probe.arg.threshold = defaultThreshold
    /\ probe.out = << 1 >>

AreaCalculated == probe.fn = "calculateArea" /\ probe.pc = "returned"

\* The sum of the trapezoids of the places, in halves
RECURSIVE TrapezoidSum(_, _, _)
TrapezoidSum(times, intensities, places) ==
    IF places = {} THEN 0
    ELSE LET i == CHOOSE x \in places : TRUE IN
         (times[i + 1] - times[i]) * (intensities[i + 1] + intensities[i])
           + TrapezoidSum(times, intensities, places \ {i})

\* C23: for n points, calculateArea returns the sum over i = 1..n-1 of
\* (t[i]-t[i-1]) * (I[i]+I[i-1]) / 2; it returns 0 for fewer than 2 points
\* and 10 for the points (0,0), (1,10), (2,0).
C23_AreaIsTrapezoidSum ==
    (AreaCalculated /\ Len(probe.arg.intensities) = Len(probe.arg.times)) =>
        LET times == probe.arg.times
            intensities == probe.arg.intensities
        IN /\ probe.out
                = Halves(TrapezoidSum(times, intensities, 1..(Len(times) - 1)))
           /\ Len(times) < 2 => probe.out = Halves(0)
           /\ (times = << 0, 1, 2 >> /\ intensities = << 0, 10, 0 >>)
                 => probe.out = Halves(2 * 10)

C23_Witness ==
    /\ AreaCalculated
    /\ probe.arg = [times |-> << 0, 1, 2 >>, intensities |-> << 0, 10, 0 >>]
    /\ probe.out = Halves(20)

----------------------------------------------------------------------------
(* Progress of the request queue *)

\* The request of push n has been taken from the queue and its promise has
\* been resolved or rejected
SettledRequest(n) ==
    /\ \E k \in 1..Len(dispatched) : dispatched[k] = n
    /\ \A l \in loops : ~(l.pc = "fetch" /\ l.req.seq = n)

\* A request is in the queue and no loop of #processQueue is running
LeftBehind == requestQueue # << >> /\ (~isProcessingQueue \/ loops = {})

\* Every request pushed so far has been dispatched and settled
AllSettled == \A n \in 1..pushed : SettledRequest(n)

\* C24: where every fetch settles, every request pushed onto the queue is
\* dispatched and its promise settled: from a state with an unsettled
\* request a state follows where all requests pushed by then are settled.
\* No request is in the queue while no loop of #processQueue runs, and the
\* queue is empty whenever #isProcessingQueue is false.
C24_EveryRequestSettles ==
    /\ [](~LeftBehind)
    /\ (~AllSettled) ~> AllSettled

\* A request pushed onto the empty queue during the delay of the loop has
\* been dispatched and settled.
C24_Witness ==
    /\ \E l \in loops : l.pc = "delay" /\ l.req.late
    /\ requestQueue = << >>

----------------------------------------------------------------------------
(* Concurrent lookups of one name *)

\* C25 (as claimed): a fetchCompoundInfo call that starts while another call
\* for the same name has not returned pushes no identifier-resolution
\* request of its own, so that one request (and one update event) serves
\* the name.
C25_OneSearchPerName ==
    [][ \A d \in DOMAIN calls' \ DOMAIN calls :
          (\E c \in DOMAIN calls :
              calls[c].name = calls'[d].name /\ calls[c].pc # "done")
            => calls'[d].via # "search" ]_vars

----------------------------------------------------------------------------
(* Two invocations of processMetabolites at once *)

BothFinished ==
    /\ proc.pc = "done"
    /\ proc.earlier # << >>
    /\ proc.earlier[1].pc = "done"

\* C26 (as claimed): when processMetabolites was called for a second upload
\* while it was running for a first one, and both have finished, the table
\* has one row for each metabolite of the second upload and no other row.
C26_OnlyRowsOfSecondUpload ==
    BothFinished => [k \in 1..Len(rows) |-> rows[k].name] = proc.metabolites

----------------------------------------------------------------------------
(* The pathway graph with clear() *)

----------------------------------------------------------------------------
(* clearCache during an enrichment *)

\* No other fetchCompoundInfo call has been made for the name of call c
OnlyLookupOfItsName(c) ==
    \A d \in CallIds \ {c} : calls[d].name # calls[c].name

----------------------------------------------------------------------------
(* The load of the request queue under batchFetchCompoundInfo *)

\* The requests queued or in flight
Outstanding == Len(requestQueue) + Cardinality(InFlight)

\* C29: with batchFetchCompoundInfo as the only caller, at most 15 requests
\* (three for each compound of a chunk) are queued or in flight; when the
\* last search of a chunk that searches has settled, no request of an
\* earlier chunk is left in the queue.
C29_AtMostFifteenOutstanding ==
    /\ Outstanding <= 3 * batchSize
    /\ ( /\ \E c \in batch.chunk : calls[c].via = "search"
         /\ \A c \in batch.chunk : calls[c].pc # "search" )
          => \A k \in 1..Len(requestQueue) : requestQueue[k].call \in batch.chunk

\* The second chunk has pushed its five searches while the ten enrichment
\* requests of the first are still queued or in flight.
C29_Witness ==
    /\ Outstanding = 3 * batchSize
    /\ Cardinality({ k \in 1..Len(requestQueue) : requestQueue[k].kind = "search" })
         = batchSize

----------------------------------------------------------------------------
(* The error validateData reports *)

\* What validateData rejects in a row
RejectedTime(row) == IsNaN(ParseFloat(row[requiredColumns[2]]))
RejectedIntensity(row) == IsNaN(ParseFloat(row[requiredColumns[3]]))
RejectedName(row) ==
    ~Truthy(row[requiredColumns[1]]) \/ row[requiredColumns[1]].t # "string"
Rejected(row) == RejectedTime(row) \/ RejectedIntensity(row) \/ RejectedName(row)

\* C30: validateData returns all rows or none: when it rejects several rows
\* the error is that of the rejected row of lowest index; in that row a
\* rejected retention time is reported before a rejected intensity, and that
\* before a rejected name; no part of the rows is returned with an error.
C30_FirstRejectedRowReported ==
    (Validated /\ Len(probe.arg.rows) > 0) =>
        LET rs == probe.arg.rows
            bad == { i \in 1..Len(rs) : Rejected(rs[i]) }
        IN IF bad = {}
           THEN probe.out.ok /\ Len(probe.out.value) = Len(rs)
           ELSE LET first == CHOOSE i \in bad : \A j \in bad : i <= j IN
                /\ ~probe.out.ok
                /\ probe.out.value = << >>
                /\ probe.out.row = first
                /\ probe.out.error =
                     (IF RejectedTime(rs[first]) THEN "Invalid retention time"
                      ELSE IF RejectedIntensity(rs[first])
                      THEN "Invalid intensity value"
                      ELSE "Invalid or missing metabolite name")

\* Both rows are rejected: the first for its intensity and its name, with an
\* accepted retention time, the second for its retention time; the
\* intensity of row 1 is reported.
C30_Witness ==
    /\ Validated
    /\ Len(probe.arg.rows) = 2
    /\ ~RejectedTime(probe.arg.rows[1])
    /\ RejectedIntensity(probe.arg.rows[1])
    /\ RejectedName(probe.arg.rows[1])
    /\ RejectedTime(probe.arg.rows[2])
    /\ probe.out = Err("Invalid intensity value", 1)

====
